---- MODULE Spec2Model ----
(***************************************************************************)
(* Klasseneinteilung_Web: the backend that assigns a roster of students to *)
(* classes.  The model follows src/backend/api/routes.py (session state,   *)
(* separation repair, the API handlers), src/backend/optimierung_wrapper.py*)
(* (the temporary replacement of the scoring function) and                 *)
(* src/backend/pruefungen/qualitaet.py (the quality report).               *)
(*                                                                         *)
(* Conventions.                                                            *)
(*  - A student id is a positive integer.  A cell of a Trennen_Von_X       *)
(*    column is a natural number; 0 stands for every cell that _safe_int / *)
(*    pd.to_numeric turn into "no entry" (blank, NaN, text, 0).            *)
(*  - A class list is a sequence of ids, a partition (einteilung, klassen) *)
(*    a sequence of class lists.  Python indexes classes from 0, TLA+      *)
(*    sequences from 1: the model's class index is the code's index + 1,   *)
(*    so the code's klasse_idx + 1 (the log's von_klasse) is the model's   *)
(*    index itself.                                                        *)
(*  - Python iterates a set in an order the language does not define but   *)
(*    that stays the same as long as the set is not modified.  The model   *)
(*    keeps in `vor` what a run has revealed of that order.                *)
(***************************************************************************)
EXTENDS Integers, Sequences, FiniteSets, TLC

\* Bounds of the model.
MaxSchueler == 3
MaxKlassen == 3
MaxPaare == 3
MaxLaeufe == 2
MaxBewertungen == 2
MaxAnfragen == 2
MaxIndex == 703
MaxAufrufe == 1001

\* routes.py:174  max_durchlaeufe = 100
max_durchlaeufe == 100

\* optimierung_wrapper.py:67
FORTSCHRITT_INTERVALL == 500

VARIABLES
  df,          \* the roster DataFrame: [index: set of ids, trennen: id -> cells]
  einteilung,  \* _erzwinge_trennungen's argument: the candidate partition
  paare,       \* its local set of separation pairs (routes.py:158)
  klassen,     \* its working copy (routes.py:163); at the end the partition returned
  log,         \* its list of moves (routes.py:164)
  durchlauf,   \* the loop variable of routes.py:176 (passes completed)
  rpc,         \* where the call of _erzwinge_trennungen stands
  vor,         \* revealed part of the iteration order of the set `paare`
  erneut       \* <<>>, or <<log>> when the argument of the call is the partition
               \* an earlier call returned together with that log (history)

\* optimierung_wrapper.py: the module attribute that is patched, and per call
\* (run) of optimiere_mit_sprengel its locals.
VARIABLES
  bewerte_einteilung,  \* algorithmus.bewerte_einteilung, the function installed
  wpc,                 \* run -> where the call stands
  original_bewertung,  \* run -> the function imported at optimierung_wrapper.py:89
  zaehler,             \* run -> zaehler[0] of its closure (optimierung_wrapper.py:97)
  aufrufe,             \* run -> scoring calls its own optimiser has made (history)
  vorher,              \* run -> the function installed when the call began (history)
  ueberlappt,          \* run -> another call was under way during this one (history)
  ausgang,             \* run -> how optimiere_einteilung ended: "normal", "ausnahme"
  fortschritt_callback,  \* run -> whether the caller passed a callback
  letzter_score,       \* run -> letzter_score[0] of its closure (0 for 0.0)
  bester_score_tracker,  \* run -> bester_score_tracker[0]: None for -inf, or <<score>>
  gemeldet,            \* run -> the arguments of the callback's invocations so far
  original_score,      \* what the library's scoring function returned in the
                       \* last scoring call (history)
  bibliothek           \* the library as the model bounds it: the scoring calls an
                       \* optimiser makes at most, the scores its scoring function
                       \* returns, whether callers pass a callback, and
                       \* config.PUNKTE_SPRENGEL_GLEICH

repairVars == <<df, einteilung, paare, klassen, log, durchlauf, rpc, vor, erneut>>
wrapperVars == <<bewerte_einteilung, wpc, original_bewertung, zaehler,
                 aufrufe, vorher, ueberlappt, ausgang, fortschritt_callback,
                 letzter_score, bester_score_tracker, gemeldet, original_score,
                 bibliothek>>

\* pruefungen/qualitaet.py: a call pruefe_einteilung(einteilung, df).
VARIABLES
  pruefung,    \* the GesamtPruefung returned
  ppc,         \* "ruht", "eingabe" (called), "geprueft" (returned)
  df_algo,     \* what a call _df_fuer_submodul(df) returned: None or <<view>>
  klassen_index,  \* the argument of a call _get_class_name(index)
  klassen_name    \* what the call returned: None or <<name>>


\* routes.py: the session and one request to POST /optimierung.
VARIABLES
  _state,      \* routes.py:53-60  [upload_path, df, einteilung, pruefung]
  opt,         \* the request to /optimierung: where it stands, its locals, and
               \* whether its local df still is the object _state["df"] holds
  antwort,     \* the last response of /optimierung
  anfragen     \* the number of requests the session has received (history)

pruefVars == <<pruefung, ppc, df_algo, klassen_index, klassen_name>>
apiVars == <<_state, opt, antwort, anfragen>>
vars == <<repairVars, wrapperVars, pruefVars, apiVars>>

----------------------------------------------------------------------------
\* Helpers on sets and sequences.

SeqToSet(s) == {s[i] : i \in DOMAIN s}

Min(S) == CHOOSE x \in S : \A y \in S : x <= y

Max(S) == CHOOSE x \in S : \A y \in S : y <= x

Betrag(x) == IF x < 0 THEN -x ELSE x

\* The sum of f over S.
RECURSIVE Summe(_, _)
Summe(f, S) ==
  IF S = {} THEN 0
  ELSE LET x == CHOOSE y \in S : TRUE IN f[x] + Summe(f, S \ {x})

RECURSIVE SortedSeq(_)
SortedSeq(S) == IF S = {} THEN <<>> ELSE <<Min(S)>> \o SortedSeq(S \ {Min(S)})

\* list.remove(x): drops the first occurrence of x.
ListRemove(s, x) ==
  LET i == Min({j \in DOMAIN s : s[j] = x})
  IN  SubSeq(s, 1, i - 1) \o SubSeq(s, i + 1, Len(s))

\* All two-element subsets of a set of ids.
AllePaare(S) == {{a, b} : a \in S, b \in S} \ {{a} : a \in S}

----------------------------------------------------------------------------
\* routes.py:98-110  _alle_trennungspaare

\* The cells of all Trennen_Von_X columns of student sid's row.
TrennZellen(d, sid) == SeqToSet(d.trennen[sid])

_alle_trennungspaare(d) ==
  { {e[1], e[2]} : e \in
      { x \in d.index \X (UNION {TrennZellen(d, s) : s \in d.index}) :
          /\ x[2] \in TrennZellen(d, x[1])
          /\ x[2] > 0
          /\ x[2] \in d.index
          /\ x[2] # x[1] } }

----------------------------------------------------------------------------
\* routes.py:145-251  _erzwinge_trennungen

\* routes.py:167-172  baue_zuordnung: a later class overwrites an earlier one.
baue_zuordnung(kl) ==
  [sid \in UNION {SeqToSet(kl[ki]) : ki \in DOMAIN kl} |->
     Max({ki \in DOMAIN kl : sid \in SeqToSet(kl[ki])})]

\* routes.py:180-185  the pairs both of whose members sit in the same class.
Verletzt(kl, pp) ==
  LET z == baue_zuordnung(kl)
  IN  {p \in pp : /\ Min(p) \in DOMAIN z
                     /\ Max(p) \in DOMAIN z
                     /\ z[Min(p)] = z[Max(p)]}

\* routes.py:207-212  the count of new violations for `schueler` in class zi:
\* <<n>>, or <<>> when the loop raises.  The pairs are frozensets
\* (routes.py:109), paar2 - {schueler} is a frozenset again, and frozenset
\* has no method pop: the first pair that contains `schueler` raises
\* AttributeError at routes.py:210, before anything is counted.
neue_verletzungen(kl, pp, schueler, zi) ==
  IF \E p2 \in pp : schueler \in p2
    THEN <<>>
  ELSE <<0>>

\* routes.py:201-202  the scan order: student a before b, classes ascending.
ScanFolge(a, b, k) ==
  [i \in 1..(2 * k) |-> <<IF i <= k THEN a ELSE b, ((i - 1) % k) + 1>>]

\* routes.py:197-222  the scan for the best target.  best.ziel = 0 stands for
\* beste_zielklasse = None (and bester_score = inf, below which every size
\* is); best.fehler tells that the scan was ended by the exception of
\* routes.py:210.
RECURSIVE SucheZiel(_, _, _, _, _, _)
SucheZiel(kl, pp, klasse_idx, scan, i, best) ==
  IF i > Len(scan) THEN best
  ELSE LET schueler == scan[i][1]
           zi == scan[i][2]
           neu == neue_verletzungen(kl, pp, schueler, zi)
       IN  IF zi = klasse_idx
             THEN SucheZiel(kl, pp, klasse_idx, scan, i + 1, best)
           ELSE IF neu = <<>>
             THEN [best EXCEPT !.fehler = TRUE]
           ELSE IF neu[1] > 0
             THEN SucheZiel(kl, pp, klasse_idx, scan, i + 1, best)
           ELSE IF best.ziel = 0 \/ Len(kl[zi]) < best.score
             THEN SucheZiel(kl, pp, klasse_idx, scan, i + 1,
                    [score |-> Len(kl[zi]), ziel |-> zi, schueler |-> schueler,
                     fehler |-> FALSE])
           ELSE SucheZiel(kl, pp, klasse_idx, scan, i + 1, best)

KeinZiel == [score |-> 0, ziel |-> 0, schueler |-> 0, fehler |-> FALSE]

\* routes.py:227-230  min(...) over the other classes by size: the first minimum.
Kleinste(kl, klasse_idx) ==
  CHOOSE i \in DOMAIN kl \ {klasse_idx} :
    \A j \in DOMAIN kl \ {klasse_idx} :
      \/ Len(kl[i]) < Len(kl[j])
      \/ (Len(kl[i]) = Len(kl[j]) /\ i <= j)

\* routes.py:191-232  the move chosen for the violated pair p = {a, b}, a < b:
\* [schueler, von, nach, fallback]; nach = 0 when the pass raises instead:
\* AttributeError in the scan (routes.py:210), or ValueError where min() has
\* nothing to choose from (a single class, routes.py:227).
WaehleVerschiebung(kl, pp, p) ==
  LET a == Min(p)
      b == Max(p)
      klasse_idx == baue_zuordnung(kl)[a]
      best == SucheZiel(kl, pp, klasse_idx,
                        ScanFolge(a, b, Len(kl)), 1, KeinZiel)
  IN  IF best.fehler
        THEN [schueler |-> a, von |-> klasse_idx, nach |-> 0,
              fallback |-> FALSE, a |-> a, b |-> b]
      ELSE IF best.ziel # 0
        THEN [schueler |-> best.schueler, von |-> klasse_idx,
              nach |-> best.ziel, fallback |-> FALSE, a |-> a, b |-> b]
      ELSE IF DOMAIN kl \ {klasse_idx} = {}
        THEN [schueler |-> b, von |-> klasse_idx, nach |-> 0,
              fallback |-> TRUE, a |-> a, b |-> b]
      ELSE [schueler |-> b, von |-> klasse_idx,
            nach |-> Kleinste(kl, klasse_idx), fallback |-> TRUE,
            a |-> a, b |-> b]

\* routes.py:235-236  klassen[klasse_idx].remove(s); klassen[ziel].append(s)
Verschiebe(kl, v) ==
  LET ohne == [kl EXCEPT ![v.von] = ListRemove(kl[v.von], v.schueler)]
  IN  [ohne EXCEPT ![v.nach] = Append(ohne[v.nach], v.schueler)]

\* routes.py:243-249  the log entry (the student's name is left out).
LogEintrag(v) ==
  [schueler_id |-> v.schueler,
   von_klasse  |-> v.von,
   nach_klasse |-> v.nach,
   grund       |-> IF v.schueler = v.b THEN v.a ELSE v.b]

\* The set `paare` is iterated in a fixed but unspecified order, and
\* verletzt[0] is the first violated pair in it.  p can be that pair when no
\* other violated pair is already known to come before p.
KannErstesSein(p, verletzt) == \A q \in verletzt \ {p} : <<q, p>> \notin vor

\* vor plus "p comes before every other violated pair"; vor stays transitively
\* closed: whatever comes before p also comes before what comes after q.
VorMit(p, verletzt) ==
  LET davor == {p} \cup {x \in paare : <<x, p>> \in vor}
      danach == UNION {{q} \cup {y \in paare : <<q, y>> \in vor} :
                         q \in verletzt \ {p}}
  IN  vor \cup (davor \X danach)

\* An entry that copies all classes but the last one.
AufrufOhneLetzteKlasse ==
  /\ rpc = "aufruf"
  /\ paare' = _alle_trennungspaare(df)
  /\ rpc' = IF paare' = {} THEN "fertig" ELSE "schleife"
  /\ klassen' = SubSeq(einteilung, 1, Len(einteilung) - 1)
  /\ log' = <<>>
  /\ durchlauf' = 0
  /\ UNCHANGED <<df, einteilung, vor, erneut>>
  /\ UNCHANGED <<wrapperVars, pruefVars, apiVars>>

\* An entry that copies all students into the first class.
AufrufInEineKlasse ==
  /\ rpc = "aufruf"
  /\ paare' = _alle_trennungspaare(df)
  /\ rpc' = IF paare' = {} THEN "fertig" ELSE "schleife"
  /\ klassen' = [ki \in DOMAIN einteilung |->
                   IF ki = 1
                     THEN SortedSeq(UNION {SeqToSet(einteilung[kj]) : kj \in DOMAIN einteilung})
                   ELSE <<>>]
  /\ log' = <<>>
  /\ durchlauf' = 0
  /\ UNCHANGED <<df, einteilung, vor, erneut>>
  /\ UNCHANGED <<wrapperVars, pruefVars, apiVars>>

\* An entry that copies every class in ascending order of the ids.
AufrufSortiert ==
  /\ rpc = "aufruf"
  /\ paare' = _alle_trennungspaare(df)
  /\ rpc' = IF paare' = {} THEN "fertig" ELSE "schleife"
  /\ klassen' = [ki \in DOMAIN einteilung |-> SortedSeq(SeqToSet(einteilung[ki]))]
  /\ log' = <<>>
  /\ durchlauf' = 0
  /\ UNCHANGED <<df, einteilung, vor, erneut>>
  /\ UNCHANGED <<wrapperVars, pruefVars, apiVars>>

\* routes.py:158-164  entry: without pairs the argument itself is returned.
Aufruf ==
  /\ rpc = "aufruf"
  /\ paare' = _alle_trennungspaare(df)
  /\ rpc' = IF paare' = {} THEN "fertig" ELSE "schleife"
  /\ klassen' = einteilung
  /\ log' = <<>>
  /\ durchlauf' = 0
  /\ UNCHANGED <<df, einteilung, vor, erneut>>
  /\ UNCHANGED <<wrapperVars, pruefVars, apiVars>>

\* routes.py:176-188  a pass that finds no violated pair: break.
DurchlaufOhneVerletzung ==
  /\ rpc = "schleife"
  /\ durchlauf < max_durchlaeufe
  /\ Verletzt(klassen, paare) = {}
  /\ rpc' = "fertig"
  /\ UNCHANGED <<df, einteilung, paare, klassen, log, durchlauf, vor, erneut>>
  /\ UNCHANGED <<wrapperVars, pruefVars, apiVars>>

\* routes.py:176-249  a pass that finds a violated pair: the first one in the
\* iteration order is selected and a move is looked for, made and logged,
\* unless the pass raises.
DurchlaufMitVerschiebung ==
  /\ rpc = "schleife"
  /\ durchlauf < max_durchlaeufe
  /\ LET verletzt == Verletzt(klassen, paare)
     IN  \E p \in verletzt :
           /\ KannErstesSein(p, verletzt)
           /\ LET v == WaehleVerschiebung(klassen, paare, p)
              IN  IF v.nach = 0
                    THEN /\ rpc' = "fehler"
                         /\ UNCHANGED <<klassen, log, durchlauf>>
                    ELSE /\ klassen' = Verschiebe(klassen, v)
                         /\ log' = Append(log, LogEintrag(v))
                         /\ durchlauf' = durchlauf + 1
                         /\ rpc' = rpc
           /\ vor' = VorMit(p, verletzt)
  /\ UNCHANGED <<df, einteilung, paare, erneut>>
  /\ UNCHANGED <<wrapperVars, pruefVars, apiVars>>

----------------------------------------------------------------------------
\* The inputs of _erzwinge_trennungen.

Schueler == 1..MaxSchueler

\* A roster whose Trennen_Von_X columns record the pair set P: each pair in
\* the row of its smaller id, the partners in ascending order.  The other
\* columns: no wishes, students with odd id male and with even id female, no
\* Auffaelligkeit_Score, no migration background, no Sprengel column.
DfAus(ids, P) ==
  [index   |-> ids,
   trennen |-> [s \in ids |-> SortedSeq({b \in ids : b > s /\ {s, b} \in P})],
   wunsch  |-> [s \in ids |-> <<>>],
   geschlecht |-> [s \in ids |-> IF s % 2 = 1 THEN "m" ELSE "w"],
   auffaelligkeit |-> [s \in ids |-> 0],
   migration |-> [s \in ids |-> "Nein"],
   sprengel |-> <<>>]

\* Every way to put the ids into k classes (each class list ascending).
Einteilungen(ids, k) ==
  {[ki \in 1..k |-> SortedSeq({s \in ids : z[s] = ki})] : z \in [ids -> 1..k]}

\* The class sizes differ by at most one, as in the partitions the search
\* hands to the repair (routes.py:555-564).
Ausgeglichen(kl) ==
  \A i \in DOMAIN kl : \A j \in DOMAIN kl : Len(kl[i]) <= Len(kl[j]) + 1

\* No call of optimiere_mit_sprengel has begun.
WrapperRuht ==
  /\ bewerte_einteilung = <<>>
  /\ wpc = [t \in 1..MaxLaeufe |-> "bereit"]
  /\ original_bewertung = [t \in 1..MaxLaeufe |-> <<>>]
  /\ zaehler = [t \in 1..MaxLaeufe |-> 0]
  /\ aufrufe = [t \in 1..MaxLaeufe |-> 0]
  /\ vorher = [t \in 1..MaxLaeufe |-> <<>>]
  /\ ueberlappt = [t \in 1..MaxLaeufe |-> FALSE]
  /\ ausgang = [t \in 1..MaxLaeufe |-> "keiner"]
  /\ fortschritt_callback = [t \in 1..MaxLaeufe |-> FALSE]
  /\ letzter_score = [t \in 1..MaxLaeufe |-> 0]
  /\ bester_score_tracker = [t \in 1..MaxLaeufe |-> <<>>]
  /\ gemeldet = [t \in 1..MaxLaeufe |-> <<>>]
  /\ original_score = 0
  /\ bibliothek = [max_aufrufe |-> MaxBewertungen, scores |-> {0},
                   callbacks |-> {FALSE}, punkte_sprengel_gleich |-> 1]

\* A value or None: <<v>> or <<>>.
None == <<>>

LeeresDf ==
  [index |-> {}, trennen |-> <<>>, wunsch |-> <<>>, geschlecht |-> <<>>,
   auffaelligkeit |-> <<>>, migration |-> <<>>, sprengel |-> <<>>]

KeineKonfig == [anzahl_klassen |-> 0, iterationen |-> 0, cooling_rate |-> 0]

KeineAntwort ==
  [status |-> "keine", klassen |-> <<>>, pruefung |-> <<>>,
   trennungen_erzwungen |-> <<>>]

\* routes.py:53-60  the session after the module is loaded; no request yet.
ApiRuht ==
  /\ _state = [upload_path |-> None, df |-> None, einteilung |-> None,
               pruefung |-> None]
  /\ opt = [pc |-> "frei", df |-> LeeresDf, konfig |-> KeineKonfig,
            kandidat |-> <<>>, finale_einteilung |-> <<>>, trenn_log |-> <<>>,
            geteilt |-> FALSE]
  /\ antwort = KeineAntwort
  /\ anfragen = 0

\* No call of pruefe_einteilung has been made.
KeinePruefung == [klassen |-> <<>>, gesamt_ampel |-> "", zusammenfassung |-> <<>>]

PruefungRuht ==
  /\ pruefung = KeinePruefung
  /\ ppc = "ruht"
  /\ df_algo = None
  /\ klassen_index = 0
  /\ klassen_name = None

\* No call of _erzwinge_trennungen is under way.
RepairRuht ==
  /\ df = LeeresDf
  /\ einteilung = <<>>
  /\ paare = {}
  /\ klassen = <<>>
  /\ log = <<>>
  /\ durchlauf = 0
  /\ rpc = "ruht"
  /\ vor = {}
  /\ erneut = <<>>

InitAufruf(ids, kandidaten, max_paare) ==
  /\ \E P \in SUBSET AllePaare(ids) :
       /\ Cardinality(P) <= max_paare
       /\ df = DfAus(ids, P)
  /\ einteilung \in kandidaten
  /\ paare = {}
  /\ klassen = <<>>
  /\ log = <<>>
  /\ durchlauf = 0
  /\ rpc = "aufruf"
  /\ vor = {}
  /\ erneut = <<>>
  /\ WrapperRuht
  /\ PruefungRuht
  /\ ApiRuht

\* Every way to put the ids into k classes, the ids of a class in any order
\* (the search builds its lists by swapping students between classes).
Reihungen(ids, k) ==
  UNION {{[ki \in 1..k |-> [i \in 1..Cardinality({s \in ids : z[s] = ki}) |->
                             CHOOSE s \in ids :
                               z[s] = ki /\ Cardinality({x \in ids : z[x] = ki /\ r[x] < r[s]}) = i - 1]] :
            r \in {f \in [ids -> 1..Cardinality(ids)] :
                     \A x \in ids : \A y \in ids : f[x] = f[y] => x = y}} :
         z \in [ids -> 1..k]}

\* Any partition of the roster into 1..MaxKlassen classes.
InitRepair ==
  InitAufruf(Schueler,
             UNION {Reihungen(Schueler, k) : k \in 1..MaxKlassen},
             MaxPaare)

NextRepair ==
  \/ Aufruf
  \/ DurchlaufOhneVerletzung
  \/ DurchlaufMitVerschiebung

SpecRepair == InitRepair /\ [][NextRepair]_vars

\* routes.py:145-251  _erzwinge_trennungen keeps nothing between calls: a
\* caller passes the partition a finished call returned to a second call,
\* with the same roster.
ErneuterAufruf ==
  /\ rpc = "fertig"
  /\ erneut = <<>>
  /\ einteilung' = klassen
  /\ erneut' = <<log>>
  /\ rpc' = "aufruf"
  /\ klassen' = <<>>
  /\ log' = <<>>
  /\ paare' = {}
  /\ durchlauf' = 0
  /\ UNCHANGED <<df, vor>>
  /\ UNCHANGED <<wrapperVars, pruefVars, apiVars>>

NextRepairWieder ==
  \/ NextRepair
  \/ ErneuterAufruf

SpecRepairWieder == InitRepair /\ [][NextRepairWieder]_vars

\* routes.py:238-249  the lines that write the log entry, on their own: for
\* the move of a student s of class von to another class nach because of the
\* pair with t.
Protokolliere ==
  /\ rpc = "protokoll"
  /\ log = <<>>
  /\ \E von \in DOMAIN klassen : \E nach \in DOMAIN klassen \ {von} :
       \E s \in SeqToSet(klassen[von]) : \E t \in df.index \ {s} :
         log' = Append(log, LogEintrag([schueler |-> s, von |-> von, nach |-> nach,
                                        a |-> Min({s, t}), b |-> Max({s, t})]))
  /\ UNCHANGED <<df, einteilung, paare, klassen, durchlauf, rpc, vor, erneut>>
  /\ UNCHANGED <<wrapperVars, pruefVars, apiVars>>

\* A working copy of two or more classes at routes.py:238, nothing logged yet.
InitProtokoll ==
  /\ df = DfAus(Schueler, {})
  /\ einteilung \in UNION {Reihungen(Schueler, k) : k \in 2..MaxKlassen}
  /\ klassen = einteilung
  /\ paare = {}
  /\ log = <<>>
  /\ durchlauf = 0
  /\ rpc = "protokoll"
  /\ vor = {}
  /\ erneut = <<>>
  /\ WrapperRuht
  /\ PruefungRuht
  /\ ApiRuht

NextProtokoll == Protokolliere

SpecProtokoll == InitProtokoll /\ [][NextProtokoll]_vars

----------------------------------------------------------------------------
\* optimierung_wrapper.py, optimiere_mit_sprengel.  FastAPI runs the
\* synchronous endpoint starte_optimierung in a thread pool, so calls can be
\* under way at the same time; a run is one call.
\*
\* A function value is the sequence of the runs whose closures
\* bewertung_mit_fortschritt it is made of, outermost first: <<>> is the
\* library's own bewerte_einteilung, <<2, 1>> is the closure of run 2 that
\* has captured the closure of run 1 as its original_bewertung.
\* optimiere_einteilung (library) looks the scoring function up in its module
\* at every scoring call, which is what the patch relies on.

Laeufe == 1..MaxLaeufe

\* The closure bewertung_mit_fortschritt of run t over the captured function f.
bewertung_mit_fortschritt(t, f) == <<t>> \o f

\* The runs whose closure body is executed when f is called: each closure
\* calls the function it captured and then updates its own run's counters.
Kette(f) == SeqToSet(f)

LaeuftGerade(t) == wpc[t] \in {"importiert", "optimiert"}

\* What the scoring function is left as when the optimiser has ended without
\* the finally block.
OhneFinally(t, wie) ==
  IF wie = "ausnahme" THEN bewerte_einteilung ELSE original_bewertung[t]

\* try/finally: the captured function is put back however the optimiser ended.
Wiederhergestellt(t, wie) == original_bewertung[t]

\* The call begins: the import reads the function installed at this moment.
Beginne(t) ==
  /\ wpc[t] = "bereit"
  /\ original_bewertung' = [original_bewertung EXCEPT ![t] = bewerte_einteilung]
  /\ vorher' = [vorher EXCEPT ![t] = bewerte_einteilung]
  /\ ueberlappt' = [u \in Laeufe |->
                      IF \E w \in Laeufe \ {t} : LaeuftGerade(w)
                        THEN ueberlappt[u] \/ u = t \/ LaeuftGerade(u)
                        ELSE ueberlappt[u]]
  /\ wpc' = [wpc EXCEPT ![t] = "importiert"]
  /\ \E callback \in bibliothek.callbacks :
       fortschritt_callback' = [fortschritt_callback EXCEPT ![t] = callback]
  /\ UNCHANGED <<bewerte_einteilung, zaehler, aufrufe, ausgang, letzter_score,
                 bester_score_tracker, gemeldet, original_score, bibliothek>>
  /\ UNCHANGED <<repairVars, pruefVars, apiVars>>

\* The monkey patch.
Patche(t) ==
  /\ wpc[t] = "importiert"
  /\ bewerte_einteilung' = bewertung_mit_fortschritt(t, original_bewertung[t])
  /\ wpc' = [wpc EXCEPT ![t] = "optimiert"]
  /\ UNCHANGED <<original_bewertung, zaehler, aufrufe, vorher, ueberlappt, ausgang,
                 fortschritt_callback, letzter_score, bester_score_tracker,
                 gemeldet, original_score, bibliothek>>
  /\ UNCHANGED <<repairVars, pruefVars, apiVars>>

\* A tracker that is overwritten by every score.
BesterOhneVergleich(score, bester) == <<score>>

\* optimierung_wrapper.py:109-110
BesterScore(score, bester) ==
  IF bester = None \/ score > bester[1] THEN <<score>> ELSE bester

\* A cadence that also reports the initial call.
MeldetAuchAnfangs(callback, iteration) ==
  callback /\ iteration % FORTSCHRITT_INTERVALL = 0

\* optimierung_wrapper.py:113-115
Meldet(callback, iteration) ==
  callback /\ iteration > 0 /\ iteration % FORTSCHRITT_INTERVALL = 0

\* str.strip() on the Sprengel values of the rosters.
Strip(v) ==
  CASE v \in {" A", "A "} -> "A"
    [] v = " " -> ""
    [] OTHER -> v

\* optimierung_wrapper.py:43-50  the Sprengel values of a class by position:
\* missing values dropped, the others stripped, blank ones dropped.
SprengelWerte(klasse_ids, d) ==
  LET gueltig == {i \in DOMAIN klasse_ids :
                    /\ d.sprengel[1][klasse_ids[i]] # None
                    /\ Strip(d.sprengel[1][klasse_ids[i]][1]) # ""}
  IN  [i \in gueltig |-> Strip(d.sprengel[1][klasse_ids[i]][1])]

\* A bonus for every student with a Sprengel value, partner or not.
SprengelBonusOhnePartner(e, d, punkte_pro_schueler) ==
  IF d.sprengel = None THEN 0
  ELSE Summe([ki \in DOMAIN e |->
                punkte_pro_schueler * Cardinality(DOMAIN SprengelWerte(e[ki], d))],
             DOMAIN e)

\* optimierung_wrapper.py:21-64
_sprengel_bonus(e, d, punkte_pro_schueler) ==
  IF d.sprengel = None THEN 0
  ELSE Summe([ki \in DOMAIN e |->
                LET sprengel_werte == SprengelWerte(e[ki], d)
                    mit_partner ==
                      {i \in DOMAIN sprengel_werte :
                         Cardinality({j \in DOMAIN sprengel_werte :
                                        sprengel_werte[j] = sprengel_werte[i]}) >= 2}
                IN  punkte_pro_schueler * Cardinality(mit_partner)],
             DOMAIN e)

\* optimierung_wrapper.py:93  "Sprengel" in df.columns and
\* df["Sprengel"].notna().any()
hat_sprengel(d) ==
  /\ d.sprengel # None
  /\ \E s \in d.index : d.sprengel[1][s] # None

\* optimierung_wrapper.py:102-106  the score of the closure of run u when the
\* function f is called: the closures from u inwards each add their bonus to
\* what the library's function returns.
ScoreVon(u, f, original, e, d) ==
  LET ab == Min({j \in DOMAIN f : f[j] = u})
      closures == {j \in DOMAIN f : j >= ab}
  IN  IF hat_sprengel(d)
        THEN original + Cardinality(closures) *
                          _sprengel_bonus(e, d, bibliothek.punkte_sprengel_gleich)
      ELSE original

\* One scoring call of the optimiser of run t, for the partition einteilung
\* and the roster df: it calls whatever function is installed in the module
\* now (optimierung_wrapper.py:101-118 for every closure that function is
\* made of).  iteration = zaehler[0] - 1 after the increment is the counter
\* before it.
Bewerte(t) ==
  /\ wpc[t] = "optimiert"
  /\ aufrufe[t] < bibliothek.max_aufrufe
  /\ aufrufe' = [aufrufe EXCEPT ![t] = @ + 1]
  /\ zaehler' = [u \in Laeufe |->
                   IF u \in Kette(bewerte_einteilung) THEN zaehler[u] + 1
                                                      ELSE zaehler[u]]
  /\ \E original \in bibliothek.scores :
       LET score == [u \in Kette(bewerte_einteilung) |->
                       ScoreVon(u, bewerte_einteilung, original, einteilung, df)]
       IN  /\ original_score' = original
           /\ letzter_score' = [u \in Laeufe |->
                                  IF u \in Kette(bewerte_einteilung)
                                    THEN score[u] ELSE letzter_score[u]]
           /\ bester_score_tracker' =
                [u \in Laeufe |->
                   IF u \in Kette(bewerte_einteilung)
                     THEN BesterScore(score[u], bester_score_tracker[u])
                   ELSE bester_score_tracker[u]]
           /\ gemeldet' =
                [u \in Laeufe |->
                   IF u \in Kette(bewerte_einteilung)
                      /\ Meldet(fortschritt_callback[u], zaehler[u])
                     THEN Append(gemeldet[u],
                                 [iteration |-> zaehler[u], score |-> score[u],
                                  bester_score |->
                                    BesterScore(score[u], bester_score_tracker[u])[1]])
                   ELSE gemeldet[u]]
  /\ UNCHANGED <<bewerte_einteilung, wpc, original_bewertung, vorher,
                 ueberlappt, ausgang, fortschritt_callback, bibliothek>>
  /\ UNCHANGED <<repairVars, pruefVars, apiVars>>

\* optimiere_einteilung returns or raises; the finally block runs, and the
\* call returns or passes the exception on.
OptimiererEndet(t) ==
  /\ wpc[t] = "optimiert"
  /\ \E wie \in {"normal", "ausnahme"} :
       /\ ausgang' = [ausgang EXCEPT ![t] = wie]
       /\ bewerte_einteilung' = Wiederhergestellt(t, wie)
  /\ wpc' = [wpc EXCEPT ![t] = "fertig"]
  /\ UNCHANGED <<original_bewertung, zaehler, aufrufe, vorher, ueberlappt,
                 fortschritt_callback, letzter_score, bester_score_tracker,
                 gemeldet, original_score, bibliothek>>
  /\ UNCHANGED <<repairVars, pruefVars, apiVars>>

InitWrapper == RepairRuht /\ WrapperRuht /\ PruefungRuht /\ ApiRuht

NextWrapper ==
  \E t \in Laeufe :
    \/ Beginne(t)
    \/ Patche(t)
    \/ Bewerte(t)
    \/ OptimiererEndet(t)

SpecWrapper == InitWrapper /\ [][NextWrapper]_vars

\* The scores the scoring function returns in the runs with progress reports.
Scores == {0, 1}

\* One call at a time, with or without a callback, of an optimiser that makes
\* up to MaxAufrufe scoring calls.
InitFortschritt ==
  /\ RepairRuht
  /\ PruefungRuht
  /\ ApiRuht
  /\ bewerte_einteilung = <<>>
  /\ wpc = [t \in 1..MaxLaeufe |-> "bereit"]
  /\ original_bewertung = [t \in 1..MaxLaeufe |-> <<>>]
  /\ zaehler = [t \in 1..MaxLaeufe |-> 0]
  /\ aufrufe = [t \in 1..MaxLaeufe |-> 0]
  /\ vorher = [t \in 1..MaxLaeufe |-> <<>>]
  /\ ueberlappt = [t \in 1..MaxLaeufe |-> FALSE]
  /\ ausgang = [t \in 1..MaxLaeufe |-> "keiner"]
  /\ fortschritt_callback = [t \in 1..MaxLaeufe |-> FALSE]
  /\ letzter_score = [t \in 1..MaxLaeufe |-> 0]
  /\ bester_score_tracker = [t \in 1..MaxLaeufe |-> <<>>]
  /\ gemeldet = [t \in 1..MaxLaeufe |-> <<>>]
  /\ original_score = 0
  /\ bibliothek = [max_aufrufe |-> MaxAufrufe, scores |-> Scores,
                   callbacks |-> BOOLEAN, punkte_sprengel_gleich |-> 1]

NextFortschritt ==
  \E t \in Laeufe :
    \/ (\A u \in Laeufe \ {t} : wpc[u] = "bereit") /\ Beginne(t)
    \/ Patche(t)
    \/ Bewerte(t)
    \/ OptimiererEndet(t)

SpecFortschritt == InitFortschritt /\ [][NextFortschritt]_vars

\* The cells of a Sprengel column: missing, a code, the code with a blank
\* before or after it, another code, an empty cell, a blank.
SprengelZellen == {None, <<"A">>, <<" A">>, <<"A ">>, <<"B">>, <<"">>, <<" ">>}

\* Rosters with and without a Sprengel column.
MitSprengel(ids) ==
  {DfAus(ids, {})} \cup
  {[DfAus(ids, {}) EXCEPT !.sprengel = <<zellen>>] : zellen \in [ids -> SprengelZellen]}

\* One call of optimiere_mit_sprengel whose optimiser scores a partition of
\* the roster into one or two classes.
InitSprengel ==
  /\ df \in MitSprengel(Schueler)
  /\ \E k \in 1..2 : \E z \in [df.index -> 1..k] :
       einteilung = [ki \in 1..k |-> SortedSeq({s \in df.index : z[s] = ki})]
  /\ paare = {}
  /\ klassen = <<>>
  /\ log = <<>>
  /\ durchlauf = 0
  /\ rpc = "ruht"
  /\ vor = {}
  /\ erneut = <<>>
  /\ PruefungRuht
  /\ ApiRuht
  /\ bewerte_einteilung = <<>>
  /\ wpc = [t \in 1..MaxLaeufe |-> "bereit"]
  /\ original_bewertung = [t \in 1..MaxLaeufe |-> <<>>]
  /\ zaehler = [t \in 1..MaxLaeufe |-> 0]
  /\ aufrufe = [t \in 1..MaxLaeufe |-> 0]
  /\ vorher = [t \in 1..MaxLaeufe |-> <<>>]
  /\ ueberlappt = [t \in 1..MaxLaeufe |-> FALSE]
  /\ ausgang = [t \in 1..MaxLaeufe |-> "keiner"]
  /\ fortschritt_callback = [t \in 1..MaxLaeufe |-> FALSE]
  /\ letzter_score = [t \in 1..MaxLaeufe |-> 0]
  /\ bester_score_tracker = [t \in 1..MaxLaeufe |-> <<>>]
  /\ gemeldet = [t \in 1..MaxLaeufe |-> <<>>]
  /\ original_score = 0
  /\ bibliothek = [max_aufrufe |-> 1, scores |-> {7}, callbacks |-> {FALSE},
                   punkte_sprengel_gleich |-> 5]

NextSprengel ==
  \E t \in {1} :
    \/ Beginne(t)
    \/ Patche(t)
    \/ Bewerte(t)
    \/ OptimiererEndet(t)

SpecSprengel == InitSprengel /\ [][NextSprengel]_vars

----------------------------------------------------------------------------
\* pruefungen/qualitaet.py, pruefe_einteilung.  A value the code rounds to one
\* decimal (percentages, deviations) is kept in tenths: 125 stands for 12.5.

\* A table that tolerates one violated separation per class.
SchwellenEineTrennungGeduldet ==
  [geschlecht_abweichung |-> [gruen |-> 2, orange |-> 4],
   auffaelligkeit_abweichung_pct |-> [gruen |-> 10, orange |-> 25],
   migration_abweichung_pp |-> [gruen |-> 5, orange |-> 10],
   jungen_abweichung |-> [gruen |-> 1, orange |-> 3],
   wunsch_quote_pct |-> [gruen |-> 75, orange |-> 50],
   trennungen_missachtet |-> [gruen |-> 0, orange |-> 1],
   klassengroesse_abweichung |-> [gruen |-> 1, orange |-> 2]]

\* qualitaet.py:22-30
SCHWELLEN ==
  [geschlecht_abweichung |-> [gruen |-> 2, orange |-> 4],
   auffaelligkeit_abweichung_pct |-> [gruen |-> 10, orange |-> 25],
   migration_abweichung_pp |-> [gruen |-> 5, orange |-> 10],
   jungen_abweichung |-> [gruen |-> 1, orange |-> 3],
   wunsch_quote_pct |-> [gruen |-> 75, orange |-> 50],
   trennungen_missachtet |-> [gruen |-> 0, orange |-> 0],
   klassengroesse_abweichung |-> [gruen |-> 1, orange |-> 2]]

\* A rating that takes every metric as lower-is-better.
AmpelOhneRichtung(wert, gruen, orange, niedriger_ist_besser) ==
  IF wert <= gruen THEN "gruen"
  ELSE IF wert <= orange THEN "orange"
  ELSE "rot"

\* qualitaet.py:33-46
_ampel(wert, gruen, orange, niedriger_ist_besser) ==
  IF niedriger_ist_besser
    THEN IF wert <= gruen THEN "gruen"
         ELSE IF wert <= orange THEN "orange"
         ELSE "rot"
  ELSE IF wert >= gruen THEN "gruen"
       ELSE IF wert >= orange THEN "orange"
       ELSE "rot"

\* round(num / den): to the nearest integer, a tie to the even one.
Runde(num, den) ==
  LET q == num \div den
      r == num % den
  IN  IF 2 * r < den THEN q
      ELSE IF 2 * r > den THEN q + 1
      ELSE IF q % 2 = 0 THEN q ELSE q + 1

\* round(num / den, 1), in tenths.
Zehntel(num, den) == Runde(10 * num, den)

\* round(num / den, 2), in hundredths.
Hundertstel(num, den) == Runde(100 * num, den)

\* The digits of the index to the base 26, A for 0.
KlassenNameBasis26(index, result) ==
  IF index < 26 THEN <<index + 1>> \o result
  ELSE IF index < 26 * 26 THEN <<index \div 26 + 1, (index % 26) + 1>> \o result
  ELSE <<index \div (26 * 26) + 1, ((index \div 26) % 26) + 1, (index % 26) + 1>> \o result

\* qualitaet.py:104-110  _get_class_name for the 0-based index; the name is a
\* sequence of letters, 1 for A .. 26 for Z.
RECURSIVE KlassenName(_, _)
KlassenName(index, result) ==
  IF index < 0 THEN result
  ELSE KlassenName((index \div 26) - 1, <<(index % 26) + 1>> \o result)

_get_class_name(index) == KlassenName(index, <<>>)

\* A call _get_class_name(klassen_index) returns.
Benenne ==
  /\ klassen_name = None
  /\ klassen_name' = <<_get_class_name(klassen_index)>>
  /\ UNCHANGED <<pruefung, ppc, df_algo, klassen_index>>
  /\ UNCHANGED <<repairVars, wrapperVars, apiVars>>

InitKlassenname ==
  /\ RepairRuht
  /\ WrapperRuht
  /\ ApiRuht
  /\ pruefung = KeinePruefung
  /\ ppc = "ruht"
  /\ df_algo = None
  /\ klassen_index \in 0..MaxIndex
  /\ klassen_name = None

NextKlassenname == Benenne

SpecKlassenname == InitKlassenname /\ [][NextKlassenname]_vars

\* The positions of the class list whose row has wert in the column spalte
\* (df.loc[klasse_ids] has one row per position).
ZeilenMit(klasse_ids, spalte, wert) ==
  {i \in DOMAIN klasse_ids : spalte[klasse_ids[i]] = wert}

\* The cells the two loops over the rows of the class and over the
\* Trennen_Von columns visit: <<position in the class, column>>.
TrennEintraege(klasse_ids, d) ==
  UNION {{<<i, j>> : j \in DOMAIN d.trennen[klasse_ids[i]]} : i \in DOMAIN klasse_ids}

\* The cells counted in trennungen_gesamt: every numeric cell above 0.
GezaehlteEintraege(klasse_ids, d) ==
  {e \in TrennEintraege(klasse_ids, d) : d.trennen[klasse_ids[e[1]]][e[2]] > 0}

\* A count of wishes that also takes a student's wish for themself.
GezaehlteWuenscheMitSelbst(klasse_ids, d) ==
  UNION {{<<i, wid>> : wid \in {x \in SeqToSet(d.wunsch[klasse_ids[i]]) :
                                   x # 0 /\ x \in d.index}} :
           i \in DOMAIN klasse_ids}

\* qualitaet.py:113-120  _baue_schueler_klasse_map: student id -> 1-based
\* position of the class listing it; a later class overwrites an earlier one.
_baue_schueler_klasse_map(e) ==
  [sid \in UNION {SeqToSet(e[i]) : i \in DOMAIN e} |->
     Max({i \in DOMAIN e : sid \in SeqToSet(e[i])})]

\* qualitaet.py:206-222  the wishes counted: <<position in the class, id>> for
\* every id in wuensche_ids (not 0, not the student) that is in the roster.
GezaehlteWuensche(klasse_ids, d) ==
  UNION {{<<i, wid>> : wid \in {x \in SeqToSet(d.wunsch[klasse_ids[i]]) :
                                   x # klasse_ids[i] /\ x # 0 /\ x \in d.index}} :
           i \in DOMAIN klasse_ids}

\* qualitaet.py:155-268  the body of the loop for the class at position ki.
KlassenPruefung(ki, e, d) ==
  LET klasse_ids == e[ki]
      n == Len(klasse_ids)
      anzahl_klassen == Len(e)
      gesamt_schueler == Cardinality(d.index)
      klasse_set == SeqToSet(klasse_ids)
      maennlich == Cardinality(ZeilenMit(klasse_ids, d.geschlecht, "m"))
      weiblich == Cardinality(ZeilenMit(klasse_ids, d.geschlecht, "w"))
      differenz == Betrag(maennlich - weiblich)
      gesamt_auff == Summe(d.auffaelligkeit, d.index)
      summe_auff == Summe([i \in DOMAIN klasse_ids |-> d.auffaelligkeit[klasse_ids[i]]],
                          DOMAIN klasse_ids)
      abw_auff == IF gesamt_auff > 0
                    THEN Zehntel(Betrag(summe_auff * anzahl_klassen - gesamt_auff) * 100,
                                 gesamt_auff)
                  ELSE 0
      mig == Cardinality(ZeilenMit(klasse_ids, d.migration, "Ja"))
      mig_pct == IF n > 0 THEN Zehntel(mig * 100, n) ELSE 0
      mig_stufe == IF gesamt_schueler > 0
                     THEN Zehntel(Cardinality({s \in d.index : d.migration[s] = "Ja"}) * 100,
                                  gesamt_schueler)
                   ELSE 0
      abw_mig == Betrag(mig_pct - mig_stufe)
      gesamt_jungen == Cardinality({s \in d.index : d.geschlecht[s] = "m"})
      abw_jungen == Zehntel(Betrag(maennlich * anzahl_klassen - gesamt_jungen),
                            anzahl_klassen)
      wuensche == GezaehlteWuensche(klasse_ids, d)
      erfuellt == {w \in wuensche : w[2] \in klasse_set}
      schueler_klasse_map == _baue_schueler_klasse_map(e)
      \* qualitaet.py:229-246  one entry per wish not fulfilled.  The entries of
      \* one student are appended in the iteration order of the set
      \* wuensche_ids, so the list is kept as the set of its entries; the
      \* wunsch_klasse "?" of a student no class lists is the empty name.
      details == {[schueler_id |-> klasse_ids[w[1]],
                   klasse |-> _get_class_name(ki - 1),
                   wunsch_id |-> w[2],
                   wunsch_klasse |->
                     IF w[2] \in DOMAIN schueler_klasse_map
                       THEN _get_class_name(schueler_klasse_map[w[2]] - 1)
                     ELSE <<>>] : w \in wuensche \ erfuellt}
      quote == IF wuensche # {}
                 THEN Zehntel(Cardinality(erfuellt) * 100, Cardinality(wuensche))
               ELSE 1000
      gesamt == GezaehlteEintraege(klasse_ids, d)
      missachtet == {x \in gesamt : d.trennen[klasse_ids[x[1]]][x[2]] \in klasse_set}
      S == SCHWELLEN
  IN  [klasse_name |-> _get_class_name(ki - 1),
       anzahl_schueler |-> n,
       maennlich |-> maennlich,
       weiblich |-> weiblich,
       geschlecht_differenz |-> differenz,
       geschlecht_ampel |->
         _ampel(differenz, S.geschlecht_abweichung.gruen,
                S.geschlecht_abweichung.orange, TRUE),
       auffaelligkeit_summe |-> summe_auff,
       auffaelligkeit_durchschnitt |->
         IF n > 0 THEN Hundertstel(summe_auff, n) ELSE 0,
       auffaelligkeit_ideal |-> Hundertstel(gesamt_auff, anzahl_klassen),
       auffaelligkeit_abweichung_pct |-> abw_auff,
       auffaelligkeit_ampel |->
         _ampel(abw_auff, 10 * S.auffaelligkeit_abweichung_pct.gruen,
                10 * S.auffaelligkeit_abweichung_pct.orange, TRUE),
       migration_anzahl |-> mig,
       migration_anteil_pct |-> mig_pct,
       migration_stufen_anteil_pct |-> mig_stufe,
       migration_abweichung_pp |-> abw_mig,
       migration_ampel |->
         _ampel(abw_mig, 10 * S.migration_abweichung_pp.gruen,
                10 * S.migration_abweichung_pp.orange, TRUE),
       jungen_ideal |-> Zehntel(gesamt_jungen, anzahl_klassen),
       jungen_abweichung |-> abw_jungen,
       jungen_ampel |->
         _ampel(abw_jungen, 10 * S.jungen_abweichung.gruen,
                10 * S.jungen_abweichung.orange, TRUE),
       wuensche_gesamt |-> Cardinality(wuensche),
       wuensche_erfuellt |-> Cardinality(erfuellt),
       wuensche_nicht_erfuellt |-> Cardinality(wuensche \ erfuellt),
       nicht_erfuellte_wuensche |-> details,
       wunsch_quote_pct |-> quote,
       wunsch_ampel |->
         _ampel(quote, 10 * S.wunsch_quote_pct.gruen,
                10 * S.wunsch_quote_pct.orange, FALSE),
       trennungen_gesamt |-> Cardinality(gesamt),
       trennungen_missachtet |-> Cardinality(missachtet),
       trennungen_ampel |->
         _ampel(Cardinality(missachtet), S.trennungen_missachtet.gruen,
                S.trennungen_missachtet.orange, TRUE)]

\* qualitaet.py:168-267  alle_ampeln: the six ratings of every class.
AlleAmpeln(klassen_pruefungen) ==
  UNION {{klassen_pruefungen[i].geschlecht_ampel,
          klassen_pruefungen[i].auffaelligkeit_ampel,
          klassen_pruefungen[i].migration_ampel,
          klassen_pruefungen[i].jungen_ampel,
          klassen_pruefungen[i].wunsch_ampel,
          klassen_pruefungen[i].trennungen_ampel} : i \in DOMAIN klassen_pruefungen}

\* qualitaet.py:279-283  the rating of max |size - ideal size|; the deviation
\* is not rounded and is compared in units of 1/anzahl_klassen.
KlassengroesseAmpel(e, d) ==
  LET abweichung == Max({Betrag(Len(e[i]) * Len(e) - Cardinality(d.index)) :
                           i \in DOMAIN e})
  IN  _ampel(abweichung, Len(e) * SCHWELLEN.klassengroesse_abweichung.gruen,
             Len(e) * SCHWELLEN.klassengroesse_abweichung.orange, TRUE)

\* An aggregate that leaves the class sizes out.
GesamtAmpelOhneGroesse(alle_ampeln, klassengroesse_ampel) ==
  IF "rot" \in alle_ampeln THEN "rot"
  ELSE IF "orange" \in alle_ampeln THEN "orange"
  ELSE "gruen"

\* qualitaet.py:271-287
GesamtAmpel(alle_ampeln, klassengroesse_ampel) ==
  LET gesamt_ampel == IF "rot" \in alle_ampeln THEN "rot"
                      ELSE IF "orange" \in alle_ampeln THEN "orange"
                      ELSE "gruen"
  IN  IF klassengroesse_ampel = "rot" THEN "rot"
      ELSE IF klassengroesse_ampel = "orange" /\ gesamt_ampel = "gruen" THEN "orange"
      ELSE gesamt_ampel

\* qualitaet.py:123-309  (the partition has at least one class)
pruefe_einteilung(e, d) ==
  LET klassen_pruefungen == [i \in DOMAIN e |-> KlassenPruefung(i, e, d)]
      missachtet == [i \in DOMAIN e |-> klassen_pruefungen[i].trennungen_missachtet]
      groessen == {Len(e[i]) : i \in DOMAIN e}
  IN  [klassen |-> klassen_pruefungen,
       gesamt_ampel |-> GesamtAmpel(AlleAmpeln(klassen_pruefungen),
                                    KlassengroesseAmpel(e, d)),
       zusammenfassung |->
         [anzahl_klassen |-> Len(e),
          anzahl_schueler |-> Cardinality(d.index),
          klassengroesse_min |-> Min(groessen),
          klassengroesse_max |-> Max(groessen),
          klassengroesse_ampel |-> KlassengroesseAmpel(e, d),
          trennungen_missachtet_gesamt |-> Summe(missachtet, DOMAIN e)]]

\* The call returns.
Pruefe ==
  /\ ppc = "eingabe"
  /\ pruefung' = pruefe_einteilung(einteilung, df)
  /\ ppc' = "geprueft"
  /\ UNCHANGED <<df_algo, klassen_index, klassen_name>>
  /\ UNCHANGED <<repairVars, wrapperVars, apiVars>>

\* One more cell in a Trennen_Von column of student s.
MitEintrag(d, s, wert) == [d EXCEPT !.trennen[s] = Append(@, wert)]

\* Rosters as the upload and the wish import leave them (neither checks a
\* Trennen_Von cell): pairs, and possibly one more cell that is blank, the
\* student's own id, a partner's id, or an id that is not in the roster.
Tabellen(ids) ==
  LET sauber == {DfAus(ids, P) :
                   P \in {Q \in SUBSET AllePaare(ids) : Cardinality(Q) <= MaxPaare}}
  IN  sauber \cup
      {MitEintrag(d, x[1], x[2]) : d \in sauber, x \in ids \X (0..(Max(ids) + 1))}

InitPruefung ==
  /\ df \in Tabellen(Schueler)
  /\ einteilung \in UNION {Einteilungen(Schueler, k) : k \in 1..MaxKlassen}
  /\ paare = {}
  /\ klassen = <<>>
  /\ log = <<>>
  /\ durchlauf = 0
  /\ rpc = "ruht"
  /\ vor = {}
  /\ erneut = <<>>
  /\ WrapperRuht
  /\ pruefung = KeinePruefung
  /\ ppc = "eingabe"
  /\ df_algo = None
  /\ klassen_index = 0
  /\ klassen_name = None
  /\ ApiRuht

NextPruefung == Pruefe

SpecPruefung == InitPruefung /\ [][NextPruefung]_vars

\* The Stammdaten columns and the wish columns of a roster.
MitStammdaten(d, g, a, m, w) ==
  [d EXCEPT !.geschlecht = g, !.auffaelligkeit = a, !.migration = m, !.wunsch = w]

\* Geschlecht, Auffaelligkeit_Score and Migrationshintergrund of one student.
Profile ==
  {[geschlecht |-> "m", auffaelligkeit |-> 0, migration |-> "Nein"],
   [geschlecht |-> "w", auffaelligkeit |-> 0, migration |-> "Nein"],
   [geschlecht |-> "w", auffaelligkeit |-> 2, migration |-> "Ja"],
   [geschlecht |-> "d", auffaelligkeit |-> 1, migration |-> "Nein"]}

\* The wish cells of student 1 (the others have none) and the separation
\* pairs: nothing; one wish for the separated partner; two wishes; the own
\* id, an id outside the roster and a blank cell.
Varianten(ids) ==
  {[wunsch |-> <<>>, paare |-> {}],
   [wunsch |-> <<2>>, paare |-> {{1, 2}}],
   [wunsch |-> <<2, 3>>, paare |-> {{1, 2}}],
   [wunsch |-> <<1, Max(ids) + 1, 0>>, paare |-> {}]}

\* Small rosters: any profile for each student, any of the variants.
KleineJahrgaenge(ids) ==
  {MitStammdaten(DfAus(ids, v.paare),
                 [s \in ids |-> st[s].geschlecht],
                 [s \in ids |-> st[s].auffaelligkeit],
                 [s \in ids |-> st[s].migration],
                 [s \in ids |-> IF s = 1 THEN v.wunsch ELSE <<>>]) :
     st \in [ids -> Profile], v \in Varianten(ids)}

\* A year group of eight: six boys and two girls, Auffaelligkeit_Score 8 in
\* total, half with migration background, students 1 and 3 separated, six
\* wish cells, one of them a repetition.
Jahrgang8 ==
  MitStammdaten(DfAus(1..8, {{1, 3}}),
                [s \in 1..8 |-> IF s <= 6 THEN "m" ELSE "w"],
                [s \in 1..8 |-> <<3, 2, 1, 1, 1, 0, 0, 0>>[s]],
                [s \in 1..8 |-> IF s \in {1, 2, 7, 8} THEN "Ja" ELSE "Nein"],
                [s \in 1..8 |-> <<(<<2>>), (<<1>>), (<<4, 5, 4>>), (<<>>), (<<>>),
                                  (<<>>), (<<8>>), (<<>>)>>[s]])

InitAmpel ==
  /\ df \in KleineJahrgaenge(Schueler) \cup {Jahrgang8}
  /\ \E k \in 1..MaxKlassen : \E z \in [df.index -> 1..k] :
       einteilung = [ki \in 1..k |-> SortedSeq({s \in df.index : z[s] = ki})]
  /\ paare = {}
  /\ klassen = <<>>
  /\ log = <<>>
  /\ durchlauf = 0
  /\ rpc = "ruht"
  /\ vor = {}
  /\ erneut = <<>>
  /\ WrapperRuht
  /\ pruefung = KeinePruefung
  /\ ppc = "eingabe"
  /\ df_algo = None
  /\ klassen_index = 0
  /\ klassen_name = None
  /\ ApiRuht

NextAmpel == Pruefe

SpecAmpel == InitAmpel /\ [][NextAmpel]_vars

----------------------------------------------------------------------------
\* routes.py:113-142  _df_fuer_submodul: the roster view the library search
\* is given (routes.py:549), with one Trennen_Von column.

\* The orders in which Python can iterate the set pp.
Reihenfolgen(pp) ==
  {f \in [1..Cardinality(pp) -> pp] :
     \A i \in DOMAIN f : \A j \in DOMAIN f : f[i] = f[j] => i = j}

\* routes.py:126-132  trenn_map after the pairs reihenfolge[i..] have been
\* visited: a student keeps the partner of the first pair they occur in.
\* m maps an id to its partner, 0 for an id that is not a key yet.
RECURSIVE trenn_map(_, _, _)
trenn_map(reihenfolge, i, m) ==
  IF i > Len(reihenfolge) THEN m
  ELSE LET a == Min(reihenfolge[i])
           b == Max(reihenfolge[i])
           m1 == IF m[a] = 0 THEN [m EXCEPT ![a] = b] ELSE m
           m2 == IF m1[b] = 0 THEN [m1 EXCEPT ![b] = a] ELSE m1
       IN  trenn_map(reihenfolge, i + 1, m2)

\* routes.py:120-142  the copy with the one column Trennen_Von, 0 by default.
_df_fuer_submodul(d, reihenfolge) ==
  LET m == trenn_map(reihenfolge, 1, [s \in d.index |-> 0])
  IN  [index |-> d.index, trennen |-> [s \in d.index |-> <<m[s]>>]]

\* The call returns.
BereiteAuf ==
  /\ df # LeeresDf
  /\ df_algo = None
  /\ \E reihenfolge \in Reihenfolgen(_alle_trennungspaare(df)) :
       df_algo' = <<_df_fuer_submodul(df, reihenfolge)>>
  /\ UNCHANGED <<pruefung, ppc, klassen_index, klassen_name>>
  /\ UNCHANGED <<repairVars, wrapperVars, apiVars>>

InitSubmodul ==
  /\ df \in Tabellen(Schueler)
  /\ einteilung = <<>>
  /\ paare = {}
  /\ klassen = <<>>
  /\ log = <<>>
  /\ durchlauf = 0
  /\ rpc = "ruht"
  /\ vor = {}
  /\ erneut = <<>>
  /\ WrapperRuht
  /\ PruefungRuht
  /\ ApiRuht

NextSubmodul == BereiteAuf

SpecSubmodul == InitSubmodul /\ [][NextSubmodul]_vars

----------------------------------------------------------------------------
\* routes.py: the handlers.  /upload runs on the event loop, the other
\* endpoints in the thread pool, so a request to /optimierung, which takes
\* long, is under way while other requests are served.

\* What the library's search hands back for k classes: the ids of the roster
\* in k classes whose sizes differ by at most one.
Suchergebnisse(ids, k) == {e \in Einteilungen(ids, k) : Ausgeglichen(e)}

\* The query parameters of a request (the cooling rate in thousandths).
Konfigurationen ==
  [anzahl_klassen : 0..MaxKlassen, iterationen : {0, 1},
   cooling_rate : {995, 1000}]

\* What the spec calls a valid configuration.
GueltigeKonfig(konfig, d) ==
  /\ konfig.anzahl_klassen >= 1
  /\ konfig.anzahl_klassen <= Cardinality(d.index)
  /\ konfig.iterationen > 0
  /\ konfig.cooling_rate > 0
  /\ konfig.cooling_rate < 1000

\* The rosters of the files a session is given: no separations; the first
\* three students separated from each other; one student separated from
\* themself; and students 1..4 with the one pair (1, 2).
Df4 == DfAus(1..4, {{1, 2}})

Roster ==
  {DfAus(Schueler, {}),
   DfAus(Schueler, AllePaare(1..3)),
   MitEintrag(DfAus(Schueler, {}), 1, 1),
   Df4}

\* A file: whether it has an accepted ending and pd.read_excel reads it,
\* whether every required column is recognised for sure, whether
\* baue_dataframe builds a roster from it (it raises, for instance, on a
\* Schueler-ID cell that is no number, spaltenmapping.py:236), and the roster
\* it builds.
Dateien ==
  {[lesbar |-> FALSE, sicher |-> FALSE, baubar |-> FALSE, df |-> LeeresDf]} \cup
  [lesbar : {TRUE}, sicher : BOOLEAN, baubar : {TRUE}, df : Roster] \cup
  [lesbar : {TRUE}, sicher : BOOLEAN, baubar : {FALSE}, df : {LeeresDf}]

\* routes.py:362-366, 378-384, 412-418  the requests to /upload that end
\* with status 400.
UploadAbgelehnt(datei) ==
  \/ ~datei.lesbar
  \/ datei.sicher /\ ~datei.baubar

\* routes.py:434-448  the requests to /mapping-bestaetigen that end with
\* status 400.
MappingAbgelehnt(vollstaendig) ==
  \/ _state.upload_path = None
  \/ ~vollstaendig
  \/ ~_state.upload_path[1].baubar

\* routes.py:351-421  POST /upload
upload_datei(datei) ==
  /\ anfragen < MaxAnfragen
  /\ anfragen' = anfragen + 1
  /\ IF ~datei.lesbar
       THEN UNCHANGED _state
     ELSE IF datei.sicher /\ datei.baubar
       THEN _state' = [upload_path |-> <<datei>>, df |-> <<datei.df>>,
                       einteilung |-> None, pruefung |-> None]
     ELSE _state' = [_state EXCEPT !.upload_path = <<datei>>,
                                   !.einteilung = None, !.pruefung = None]
  /\ opt' = [opt EXCEPT !.geteilt =
               @ /\ ~(datei.lesbar /\ datei.sicher /\ datei.baubar)]
  /\ UNCHANGED antwort
  /\ UNCHANGED <<repairVars, wrapperVars, pruefVars>>

\* routes.py:428-460  POST /mapping-bestaetigen
mapping_bestaetigen(vollstaendig) ==
  /\ anfragen < MaxAnfragen
  /\ anfragen' = anfragen + 1
  /\ IF MappingAbgelehnt(vollstaendig)
       THEN UNCHANGED _state
     ELSE _state' = [_state EXCEPT !.df = <<_state.upload_path[1].df>>,
                                   !.einteilung = None, !.pruefung = None]
  /\ opt' = [opt EXCEPT !.geteilt = @ /\ MappingAbgelehnt(vollstaendig)]
  /\ UNCHANGED antwort
  /\ UNCHANGED <<repairVars, wrapperVars, pruefVars>>

\* routes.py:538-549  POST /optimierung arrives: 400 without a roster,
\* otherwise the request goes on with the roster and its parameters.
starte_optimierung(konfig) ==
  /\ anfragen < MaxAnfragen
  /\ anfragen' = anfragen + 1
  /\ opt.pc \in {"frei", "fertig", "fehler"}
  /\ IF _state.df = None
       THEN /\ antwort' = [KeineAntwort EXCEPT !.status = "400"]
            /\ opt' = [opt EXCEPT !.pc = "frei"]
     ELSE /\ opt' = [pc |-> "suche", df |-> _state.df[1], konfig |-> konfig,
                     kandidat |-> <<>>, finale_einteilung |-> <<>>,
                     trenn_log |-> <<>>, geteilt |-> TRUE]
          /\ antwort' = KeineAntwort
  /\ UNCHANGED _state
  /\ UNCHANGED <<repairVars, wrapperVars, pruefVars>>

\* routes.py:551-561  the library builds a start partition and searches.
\* What it does with a configuration that is not valid is not known: it may
\* raise (the request ends with status 500) or hand back a partition.
Suche ==
  /\ opt.pc = "suche"
  /\ \/ /\ ~GueltigeKonfig(opt.konfig, opt.df)
        /\ opt' = [opt EXCEPT !.pc = "fehler"]
        /\ antwort' = [KeineAntwort EXCEPT !.status = "500"]
     \/ /\ \E e \in Suchergebnisse(opt.df.index, opt.konfig.anzahl_klassen) :
             opt' = [opt EXCEPT !.pc = "reparatur", !.kandidat = e]
        /\ UNCHANGED antwort
  /\ UNCHANGED <<_state, anfragen>>
  /\ UNCHANGED <<repairVars, wrapperVars, pruefVars>>

\* routes.py:564  _erzwinge_trennungen(finale_einteilung, df) is called; its
\* passes are the actions Aufruf .. DurchlaufMitVerschiebung above.
RufeReparatur ==
  /\ opt.pc = "reparatur"
  /\ rpc = "ruht"
  /\ df' = opt.df
  /\ einteilung' = opt.kandidat
  /\ rpc' = "aufruf"
  /\ opt' = [opt EXCEPT !.pc = "in_reparatur"]
  /\ UNCHANGED <<paare, klassen, log, durchlauf, vor, erneut>>
  /\ UNCHANGED <<_state, antwort, anfragen>>
  /\ UNCHANGED <<wrapperVars, pruefVars>>

\* routes.py:564-566  the repair returns and the partition is stored; an
\* exception of the repair ends the request with status 500.
ReparaturZurueck ==
  /\ opt.pc = "in_reparatur"
  /\ rpc \in {"fertig", "fehler"}
  /\ IF rpc = "fehler"
       THEN /\ opt' = [opt EXCEPT !.pc = "fehler"]
            /\ antwort' = [KeineAntwort EXCEPT !.status = "500"]
            /\ UNCHANGED _state
     ELSE /\ opt' = [opt EXCEPT !.pc = "pruefung",
                                !.finale_einteilung = klassen,
                                !.trenn_log = log]
          /\ _state' = [_state EXCEPT !.einteilung = <<klassen>>]
          /\ UNCHANGED antwort
  /\ df' = LeeresDf
  /\ einteilung' = <<>>
  /\ paare' = {}
  /\ klassen' = <<>>
  /\ log' = <<>>
  /\ durchlauf' = 0
  /\ rpc' = "ruht"
  /\ vor' = {}
  /\ UNCHANGED erneut
  /\ UNCHANGED anfragen
  /\ UNCHANGED <<wrapperVars, pruefVars>>

\* routes.py:569-583  the report is made and stored, the response returned.
PruefungUndAntwort ==
  /\ opt.pc = "pruefung"
  /\ LET p == pruefe_einteilung(opt.finale_einteilung, opt.df)
     IN  /\ _state' = [_state EXCEPT !.pruefung = <<p>>]
         /\ antwort' = [status |-> "ok",
                        klassen |-> opt.finale_einteilung,
                        pruefung |-> <<p>>,
                        trennungen_erzwungen |-> opt.trenn_log]
  /\ opt' = [opt EXCEPT !.pc = "fertig"]
  /\ UNCHANGED anfragen
  /\ UNCHANGED <<repairVars, wrapperVars, pruefVars>>

InitApi == RepairRuht /\ WrapperRuht /\ PruefungRuht /\ ApiRuht

NextApi ==
  \/ \E datei \in Dateien : upload_datei(datei)
  \/ \E vollstaendig \in BOOLEAN : mapping_bestaetigen(vollstaendig)
  \/ \E konfig \in Konfigurationen : starte_optimierung(konfig)
  \/ Suche
  \/ RufeReparatur
  \/ NextRepair
  \/ ReparaturZurueck
  \/ PruefungUndAntwort

SpecApi == InitApi /\ [][NextApi]_vars

----------------------------------------------------------------------------
\* routes.py: the other handlers of a session.

\* str.lower().strip() on the Geschlecht values a request carries.
Klein(g) ==
  CASE g \in {"M", " m", "m "} -> "m"
    [] g \in {"W", " w", "w "} -> "w"
    [] OTHER -> g

\* routes.py:495-507  the Stammdaten corrections of the entries i.. of the
\* request, written into the DataFrame object itself.
RECURSIVE Korrigiert(_, _, _)
Korrigiert(d, zuordnungen, i) ==
  IF i > Len(zuordnungen) THEN d
  ELSE LET z == zuordnungen[i]
           sid == z.schueler_id
           d1 == IF sid \in d.index /\ z.geschlecht # None
                   THEN [d EXCEPT !.geschlecht[sid] = Klein(z.geschlecht[1])] ELSE d
           d2 == IF sid \in d.index /\ z.auffaelligkeit # None
                   THEN [d1 EXCEPT !.auffaelligkeit[sid] = z.auffaelligkeit[1]] ELSE d1
           d3 == IF sid \in d.index /\ z.migration # None
                   THEN [d2 EXCEPT !.migration[sid] = z.migration[1]] ELSE d2
       IN  Korrigiert(d3, zuordnungen, i + 1)

\* spaltenmapping.py:406-413  the cells of the entries i.. written over the
\* new columns.
RECURSIVE Eingetragen(_, _, _)
Eingetragen(d, zuordnungen, i) ==
  IF i > Len(zuordnungen) THEN d
  ELSE LET z == zuordnungen[i]
           sid == z.schueler_id
           d1 == IF sid \in d.index
                   THEN [d EXCEPT
                           !.wunsch[sid] =
                             [j \in DOMAIN @ |-> IF j <= Len(z.wuensche)
                                                   THEN z.wuensche[j] ELSE @[j]],
                           !.trennen[sid] =
                             [j \in DOMAIN @ |-> IF j <= Len(z.trennen_von)
                                                   THEN z.trennen_von[j] ELSE @[j]]]
                 ELSE d
       IN  Eingetragen(d1, zuordnungen, i + 1)

\* spaltenmapping.py:374-415  a new DataFrame whose Wunsch_ and Trennen_Von
\* columns are those of the request: as many as its longest list, at least
\* one, blank where no entry writes.
wuensche_einfuegen(d, zuordnungen) ==
  LET max_wuensche == Max({Len(zuordnungen[i].wuensche) : i \in DOMAIN zuordnungen}
                          \cup {1})
      max_trennungen == Max({Len(zuordnungen[i].trennen_von) : i \in DOMAIN zuordnungen}
                            \cup {1})
      leer == [d EXCEPT !.wunsch = [s \in d.index |-> [j \in 1..max_wuensche |-> 0]],
                        !.trennen = [s \in d.index |-> [j \in 1..max_trennungen |-> 0]]]
  IN  Eingetragen(leer, zuordnungen, 1)

\* One entry of the body of POST /wuensche-speichern.
Zuordnung(sid, wuensche, trennen_von, g, a, m) ==
  [schueler_id |-> sid, wuensche |-> wuensche, trennen_von |-> trennen_von,
   geschlecht |-> g, auffaelligkeit |-> a, migration |-> m]

\* The bodies of the requests: no entry; a wish; a separation; Stammdaten
\* corrections; an entry for an id that is not in the roster.
Zuordnungen ==
  {<<>>,
   <<Zuordnung(1, <<2>>, <<>>, None, None, None)>>,
   <<Zuordnung(1, <<>>, <<2>>, None, None, None)>>,
   <<Zuordnung(2, <<>>, <<>>, <<"M">>, <<3>>, <<"Ja">>)>>,
   <<Zuordnung(MaxSchueler + 2, <<1>>, <<1>>, <<"w">>, None, None)>>}

\* routes.py:484-531  POST /wuensche-speichern.  The corrections reach every
\* holder of the DataFrame object, a request to /optimierung that took it
\* from the session among them.
wuensche_speichern(zuordnungen) ==
  /\ anfragen < MaxAnfragen
  /\ anfragen' = anfragen + 1
  /\ IF _state.df = None
       THEN UNCHANGED <<_state, opt, df>>
     ELSE /\ _state' = [_state EXCEPT !.df =
                          <<wuensche_einfuegen(Korrigiert(_state.df[1], zuordnungen, 1),
                                               zuordnungen)>>]
          /\ opt' = IF opt.geteilt
                      THEN [opt EXCEPT !.df = Korrigiert(@, zuordnungen, 1),
                                       !.geteilt = FALSE]
                    ELSE opt
          /\ df' = IF opt.geteilt /\ rpc # "ruht"
                     THEN Korrigiert(df, zuordnungen, 1) ELSE df
  /\ UNCHANGED antwort
  /\ UNCHANGED <<einteilung, paare, klassen, log, durchlauf, rpc, vor, erneut>>
  /\ UNCHANGED <<wrapperVars, pruefVars>>

\* The ids of a partition in the order of the two loops over it.
RECURSIVE Flach(_)
Flach(kl) == IF kl = <<>> THEN <<>> ELSE Head(kl) \o Flach(Tail(kl))

\* routes.py:601-615  the checks of POST /verschieben.
VerschiebungZulaessig(neue_einteilung, d) ==
  LET ids == Flach(neue_einteilung)
  IN  /\ \A i \in DOMAIN ids : ids[i] \in d.index
      /\ \A i \in DOMAIN ids : \A j \in DOMAIN ids : ids[i] = ids[j] => i = j
      /\ Cardinality(SeqToSet(ids)) = Cardinality(d.index)

\* The bodies of the requests: the roster in two classes; an id that is not
\* in the roster; an id twice; an id only.
Verschiebungen(ids) ==
  Einteilungen(ids, 2) \cup
  {<<SortedSeq(ids), <<Max(ids) + 1>>>>, <<SortedSeq(ids), <<1>>>>, <<(<<1>>)>>}

\* routes.py:590-651  POST /verschieben
verschiebe_schueler(neue_einteilung) ==
  /\ anfragen < MaxAnfragen
  /\ anfragen' = anfragen + 1
  /\ IF _state.df = None \/ ~VerschiebungZulaessig(neue_einteilung, _state.df[1])
       THEN /\ antwort' = [KeineAntwort EXCEPT !.status = "400"]
            /\ UNCHANGED _state
     ELSE LET p == pruefe_einteilung(neue_einteilung, _state.df[1])
          IN  /\ _state' = [_state EXCEPT !.einteilung = <<neue_einteilung>>,
                                         !.pruefung = <<p>>]
              /\ antwort' = [status |-> "ok", klassen |-> neue_einteilung,
                             pruefung |-> <<p>>, trennungen_erzwungen |-> <<>>]
  /\ UNCHANGED opt
  /\ UNCHANGED <<repairVars, wrapperVars, pruefVars>>

\* routes.py:658-666  GET /pruefung (it changes nothing in the session)
hole_pruefung ==
  /\ antwort' = IF _state.pruefung = None
                  THEN [KeineAntwort EXCEPT !.status = "400"]
                ELSE [status |-> "bericht", klassen |-> <<>>,
                      pruefung |-> _state.pruefung, trennungen_erzwungen |-> <<>>]
  /\ UNCHANGED <<_state, opt, anfragen>>
  /\ UNCHANGED <<repairVars, wrapperVars, pruefVars>>

\* routes.py:467-477  GET /schueler (it changes nothing in the session): the
\* students of the stored roster in the order of its rows.
hole_schueler ==
  /\ antwort' = IF _state.df = None
                  THEN [KeineAntwort EXCEPT !.status = "400"]
                ELSE [status |-> "schueler", klassen |-> <<>>, pruefung |-> None,
                      trennungen_erzwungen |-> <<>>,
                      schueler |-> SortedSeq(_state.df[1].index)]
  /\ UNCHANGED <<_state, opt, anfragen>>
  /\ UNCHANGED <<repairVars, wrapperVars, pruefVars>>

\* routes.py:706-727  the attributes of a KlassenPruefung the export reads.
ExportFelder ==
  {"klasse_name", "anzahl_schueler", "maennlich", "weiblich",
   "geschlecht_differenz", "geschlecht_ampel", "auffaelligkeit_summe",
   "auffaelligkeit_durchschnitt", "auffaelligkeit_ampel",
   "migration_anteil_pct", "migration_abweichung_pp", "migration_ampel",
   "wuensche_erfuellt", "wuensche_nicht_erfuellt", "wunsch_quote_pct",
   "wunsch_ampel", "trennungen_missachtet", "trennungen_ampel",
   "ohne_laufpartner", "laufpartner_ampel"}

\* routes.py:673-736  GET /export (it changes nothing in the session).  The
\* file holds the classes, the one at position i under _get_class_name(i - 1),
\* and the ExportFelder of every class of the report.  df.loc raises KeyError
\* for an id the roster lacks, and reading an attribute the KlassenPruefung
\* object lacks raises AttributeError; an exception the handler does not
\* catch ends the request with status 500.
exportiere_excel ==
  /\ antwort' =
       IF _state.einteilung = None \/ _state.df = None
         THEN [KeineAntwort EXCEPT !.status = "400"]
       ELSE LET d == _state.df[1]
                e == _state.einteilung[1]
                pruef == _state.pruefung
            IN  IF \E i \in DOMAIN e : ~(SeqToSet(e[i]) \subseteq d.index)
                  THEN [KeineAntwort EXCEPT !.status = "500"]
                ELSE IF /\ pruef # None
                        /\ \E i \in DOMAIN pruef[1].klassen :
                             ~(ExportFelder \subseteq DOMAIN pruef[1].klassen[i])
                  THEN [KeineAntwort EXCEPT !.status = "500"]
                ELSE [status |-> "datei", klassen |-> e, pruefung |-> pruef,
                      trennungen_erzwungen |-> <<>>]
  /\ UNCHANGED <<_state, opt, anfragen>>
  /\ UNCHANGED <<repairVars, wrapperVars, pruefVars>>

\* The session after the module is loaded, or after the upload of a file
\* whose columns were all recognised.
InitSitzung ==
  /\ RepairRuht
  /\ WrapperRuht
  /\ PruefungRuht
  /\ \/ ApiRuht
     \/ \E datei \in Dateien :
          /\ datei.lesbar
          /\ datei.sicher
          /\ datei.baubar
          /\ _state = [upload_path |-> <<datei>>, df |-> <<datei.df>>,
                       einteilung |-> None, pruefung |-> None]
          /\ opt = [pc |-> "frei", df |-> LeeresDf, konfig |-> KeineKonfig,
                    kandidat |-> <<>>, finale_einteilung |-> <<>>,
                    trenn_log |-> <<>>, geteilt |-> FALSE]
          /\ antwort = KeineAntwort
          /\ anfragen = 0

NextSitzung ==
  \/ NextApi
  \/ \E zuordnungen \in Zuordnungen : wuensche_speichern(zuordnungen)
  \/ \E neue_einteilung \in Verschiebungen(Schueler) \cup Verschiebungen(Df4.index) :
       verschiebe_schueler(neue_einteilung)
  \/ hole_pruefung
  \/ hole_schueler
  \/ exportiere_excel

SpecSitzung == InitSitzung /\ [][NextSitzung]_vars

----------------------------------------------------------------------------
\* Notions the properties of _erzwinge_trennungen are stated with.

\* Every id of ids stands in exactly one place of the partition kl, and
\* nothing else stands in it.
IstEinteilung(kl, ids) ==
  /\ \A ki \in DOMAIN kl : SeqToSet(kl[ki]) \subseteq ids
  /\ \A s \in ids :
       Cardinality(UNION {{<<ki, j>> : j \in {i \in DOMAIN kl[ki] : kl[ki][i] = s}} :
                            ki \in DOMAIN kl}) = 1

\* The size of a largest set of students that are pairwise separated.
Cliquenzahl(ids, pp) ==
  Max({Cardinality(C) : C \in {D \in SUBSET ids : AllePaare(D) \subseteq pp}})

ImAufruf == rpc \in {"schleife", "fertig"}

----------------------------------------------------------------------------
\* C1: whenever the largest set of mutually separated students is
\* no larger than the number of classes, the repair does not fail and the
\* partition it returns has no violated pair.
C1_CliqueGenuegt ==
  Cliquenzahl(df.index, _alle_trennungspaare(df)) <= Len(einteilung)
    => /\ rpc # "fehler"
       /\ rpc = "fertig" =>
            Verletzt(klassen, _alle_trennungspaare(df)) = {}

C4_Fall ==
  /\ opt.pc \in {"fertig", "fehler"}
  /\ opt.df = Df4
  /\ opt.konfig.anzahl_klassen = 2

\* C4: in that case the final partition has 1 and 2 in different
\* classes, the report counts no missed separation, and each class has
\* exactly two students.
C4_ZweiUndZwei ==
  C4_Fall =>
    /\ antwort.status = "ok"
    /\ baue_zuordnung(antwort.klassen)[1] # baue_zuordnung(antwort.klassen)[2]
    /\ antwort.pruefung[1].zusammenfassung.trennungen_missachtet_gesamt = 0
    /\ \A ki \in DOMAIN antwort.klassen : Len(antwort.klassen[ki]) = 2

\* C5: a request for a roster in which more students are mutually separated
\* than there are classes (so that no repair can separate every pair) does
\* not fail: it is answered with status ok and the partition the repair
\* returned, and the answer tells the caller that separated students still
\* share a class (its report counts a missed separation).
C5_ErschoepfungErkennbar ==
  ( /\ opt.pc \in {"fertig", "fehler"}
    /\ GueltigeKonfig(opt.konfig, opt.df)
    /\ Cliquenzahl(opt.df.index, _alle_trennungspaare(opt.df))
         > opt.konfig.anzahl_klassen )
  => /\ antwort.status = "ok"
     /\ antwort.klassen = opt.finale_einteilung
     /\ antwort.pruefung[1].zusammenfassung.trennungen_missachtet_gesamt > 0

\* C6: when more students are mutually separated than there are classes, the
\* repair does not fail; it returns after at most max_durchlaeufe passes
\* with a violated pair left.
C6_ErschoepftOhneFehler ==
  Cliquenzahl(df.index, _alle_trennungspaare(df)) > Len(einteilung)
    => /\ rpc # "fehler"
       /\ rpc = "fertig" =>
            /\ durchlauf <= max_durchlaeufe
            /\ Verletzt(klassen, _alle_trennungspaare(df)) # {}

\* C7: a request whose configuration is not valid gets no further than its
\* arrival: no search is started for it, and so nothing it would store is
\* stored.
C7_UngueltigAbgelehnt ==
  opt.pc \in {"suche", "reparatur", "in_reparatur", "pruefung", "fertig", "fehler"}
    => GueltigeKonfig(opt.konfig, opt.df)

\* C8: with calls under way at the same time, every scoring call of a run
\* is counted by that run's closure and by no other, and once every call has
\* returned the library's own scoring function is installed again.
C8_LaeufeGetrennt ==
  /\ \A t \in Laeufe : zaehler[t] = aufrufe[t]
  /\ (\A t \in Laeufe : wpc[t] = "fertig") => bewerte_einteilung = <<>>

\* C9: when a call that no other call overlapped returns, by return or by
\* exception, the function installed is the one installed when it began.
C9_StelltWiederHer ==
  [][\A t \in Laeufe :
       (wpc[t] = "optimiert" /\ wpc'[t] = "fertig" /\ ~ueberlappt[t])
         => bewerte_einteilung' = vorher[t]]_vars

\* C9 witness: a call on its own has scored, ended with an exception, and
\* left the function installed that it found.
C9_Zeuge ==
  \E t \in Laeufe :
    /\ wpc[t] = "fertig"
    /\ ausgang[t] = "ausnahme"
    /\ ~ueberlappt[t]
    /\ aufrufe[t] > 0
    /\ zaehler[t] = aufrufe[t]
    /\ bewerte_einteilung = vorher[t]

\* C10: a Trennen_Von cell that holds the student's own id or an id that is
\* not in the roster counts nowhere: no pair of the repair and of the
\* manual-move check comes from it, and the report counts per class only the
\* cells that name another student of the roster, and as missed only those
\* of them whose partner is in the class.
C10_EintraegeVerworfen ==
  /\ \A p \in _alle_trennungspaare(df) :
       /\ p \subseteq df.index
       /\ Cardinality(p) = 2
  /\ ppc = "geprueft" =>
       \A ki \in DOMAIN einteilung :
         LET kl == einteilung[ki]
             gueltig == {e \in TrennEintraege(kl, df) :
                           /\ df.trennen[kl[e[1]]][e[2]] \in df.index
                           /\ df.trennen[kl[e[1]]][e[2]] # kl[e[1]]}
             geteilt == {e \in gueltig : df.trennen[kl[e[1]]][e[2]] \in SeqToSet(kl)}
         IN  /\ pruefung.klassen[ki].trennungen_gesamt = Cardinality(gueltig)
             /\ pruefung.klassen[ki].trennungen_missachtet = Cardinality(geteilt)

\* C11: every separation pair of the roster is recorded in the view the
\* search is given: one of the two students has the other in Trennen_Von.
C11_AllePaareInSicht ==
  df_algo # None =>
    \A p \in _alle_trennungspaare(df) :
      \/ df_algo[1].trennen[Min(p)][1] = Max(p)
      \/ df_algo[1].trennen[Max(p)][1] = Min(p)

\* C12: a class that holds both students of a separation pair has the
\* separation rating rot, and the aggregate rating of the report is rot.
C12_TrennungMachtRot ==
  ppc = "geprueft" =>
    \A ki \in DOMAIN einteilung :
      (\E p \in _alle_trennungspaare(df) : p \subseteq SeqToSet(einteilung[ki])) =>
        /\ pruefung.klassen[ki].trennungen_ampel = "rot"
        /\ pruefung.gesamt_ampel = "rot"

\* A checked partition with a separated pair in one class whose other five
\* ratings and the class sizes are gruen.
C12_Zeuge ==
  /\ ppc = "geprueft"
  /\ \E ki \in DOMAIN einteilung :
       /\ \E p \in _alle_trennungspaare(df) : p \subseteq SeqToSet(einteilung[ki])
       /\ pruefung.klassen[ki].trennungen_missachtet = 1
       /\ AlleAmpeln(pruefung.klassen) = {"gruen", "rot"}
       /\ \A kj \in DOMAIN einteilung :
            LET k == pruefung.klassen[kj]
            IN  {k.geschlecht_ampel, k.auffaelligkeit_ampel, k.migration_ampel,
                 k.jungen_ampel, k.wunsch_ampel} = {"gruen"}
       /\ pruefung.zusammenfassung.klassengroesse_ampel = "gruen"

\* The rating of a lower-is-better value for the bounds gruen and orange.
NiedrigIstBesser(ampel, wert, gruen, orange) ==
  /\ ampel \in {"gruen", "orange", "rot"}
  /\ ampel = "gruen" <=> wert <= gruen
  /\ ampel = "orange" <=> (gruen < wert /\ wert <= orange)
  /\ ampel = "rot" <=> wert > orange

\* The rating of a higher-is-better value.
HochIstBesser(ampel, wert, gruen, orange) ==
  /\ ampel \in {"gruen", "orange", "rot"}
  /\ ampel = "gruen" <=> wert >= gruen
  /\ ampel = "orange" <=> (orange <= wert /\ wert < gruen)
  /\ ampel = "rot" <=> wert < orange

\* C13: every rating of a checked class is the one the threshold table gives
\* to the reported value: lower-is-better for gender difference, disruption,
\* migration, boy deviation and separations, higher-is-better with 75 and 50
\* for the wish percentage (percentages in tenths); the gender difference is
\* |males - females|, and a class of 6 males and 2 females has difference 4
\* and the rating orange.
C13_AmpelNachTabelle ==
  ppc = "geprueft" =>
    \A ki \in DOMAIN einteilung :
      LET k == pruefung.klassen[ki]
          m == Cardinality({i \in DOMAIN einteilung[ki] :
                             df.geschlecht[einteilung[ki][i]] = "m"})
          w == Cardinality({i \in DOMAIN einteilung[ki] :
                             df.geschlecht[einteilung[ki][i]] = "w"})
      IN  /\ k.geschlecht_differenz = Betrag(m - w)
          /\ (m = 6 /\ w = 2) =>
               (k.geschlecht_differenz = 4 /\ k.geschlecht_ampel = "orange")
          /\ NiedrigIstBesser(k.geschlecht_ampel, k.geschlecht_differenz, 2, 4)
          /\ NiedrigIstBesser(k.auffaelligkeit_ampel,
                              k.auffaelligkeit_abweichung_pct, 100, 250)
          /\ NiedrigIstBesser(k.migration_ampel, k.migration_abweichung_pp, 50, 100)
          /\ NiedrigIstBesser(k.jungen_ampel, k.jungen_abweichung, 10, 30)
          /\ NiedrigIstBesser(k.trennungen_ampel, k.trennungen_missachtet, 0, 0)
          /\ HochIstBesser(k.wunsch_ampel, k.wunsch_quote_pct, 750, 500)

\* A checked class of six boys and two girls, rated orange for the gender
\* difference and, with every wish fulfilled, gruen for the wishes.
C13_Zeuge ==
  /\ ppc = "geprueft"
  /\ \E ki \in DOMAIN einteilung :
       /\ pruefung.klassen[ki].maennlich = 6
       /\ pruefung.klassen[ki].weiblich = 2
       /\ pruefung.klassen[ki].geschlecht_ampel = "orange"
       /\ pruefung.klassen[ki].wunsch_ampel = "gruen"
       /\ pruefung.klassen[ki].wunsch_quote_pct = 1000

\* The ratings of a report: the six of every class and the class-size one.
BerichteteAmpeln ==
  {pruefung.zusammenfassung.klassengroesse_ampel} \cup
  UNION {{pruefung.klassen[ki].geschlecht_ampel,
          pruefung.klassen[ki].auffaelligkeit_ampel,
          pruefung.klassen[ki].migration_ampel,
          pruefung.klassen[ki].jungen_ampel,
          pruefung.klassen[ki].wunsch_ampel,
          pruefung.klassen[ki].trennungen_ampel} : ki \in DOMAIN pruefung.klassen}

\* C14: the aggregate rating of a report is the worst of the six ratings of
\* every class and the class-size rating: rot iff one of them is rot, orange
\* iff none is rot and one is orange, gruen otherwise.
C14_GesamtIstSchlechteste ==
  ppc = "geprueft" =>
    /\ pruefung.gesamt_ampel = "rot" <=> "rot" \in BerichteteAmpeln
    /\ pruefung.gesamt_ampel = "orange" <=>
         ("rot" \notin BerichteteAmpeln /\ "orange" \in BerichteteAmpeln)
    /\ pruefung.gesamt_ampel = "gruen" <=> BerichteteAmpeln = {"gruen"}

\* A report whose class-size rating alone is worse than gruen.
C14_Zeuge ==
  /\ ppc = "geprueft"
  /\ AlleAmpeln(pruefung.klassen) = {"gruen"}
  /\ pruefung.zusammenfassung.klassengroesse_ampel = "orange"
  /\ pruefung.gesamt_ampel = "orange"

\* C15: the report GET /pruefung returns is the Quality Assessor's result for
\* the stored partition and the stored roster.
C15_BerichtAktuell ==
  [][(hole_pruefung /\ antwort'.status = "bericht") =>
       /\ _state.df # None
       /\ _state.einteilung # None
       /\ antwort'.pruefung =
            <<pruefe_einteilung(_state.einteilung[1], _state.df[1])>>]_vars

\* C16: a stored partition is a partition of the stored roster.
C16_EinteilungDesJahrgangs ==
  _state.einteilung # None =>
    /\ _state.df # None
    /\ IstEinteilung(_state.einteilung[1], _state.df[1].index)

\* The number a letter sequence stands for when A..Z are the digits 1..26 of
\* a numeral without zero: A is 1, Z is 26, AA is 27.
RECURSIVE Nummer(_)
Nummer(name) ==
  IF name = <<>> THEN 0
  ELSE 26 * Nummer(SubSeq(name, 1, Len(name) - 1)) + name[Len(name)]

\* n comes before m: it is shorter, or as long and alphabetically earlier.
Davor(n, m) ==
  \/ Len(n) < Len(m)
  \/ /\ Len(n) = Len(m)
     /\ \E i \in DOMAIN n :
          /\ n[i] < m[i]
          /\ \A j \in 1..(i - 1) : n[j] = m[j]

\* C17: the name of an index is a non-empty sequence of letters A..Z, the
\* one that has the place index + 1 among all such sequences ordered by
\* length and then alphabetically (so distinct indices have distinct names
\* and every sequence is the name of one index); the name of the index
\* before comes before it; 0 is A, 25 is Z, 26 is AA, 27 is AB, 701 is ZZ and
\* 702 is AAA.
C17_NameIstBijektion ==
  klassen_name # None =>
    LET name == klassen_name[1]
    IN  /\ name # <<>>
        /\ \A i \in DOMAIN name : name[i] \in 1..26
        /\ Nummer(name) = klassen_index + 1
        /\ klassen_index > 0 => Davor(_get_class_name(klassen_index - 1), name)
        /\ klassen_index = 0 => name = <<1>>
        /\ klassen_index = 25 => name = <<26>>
        /\ klassen_index = 26 => name = <<1, 1>>
        /\ klassen_index = 27 => name = <<1, 2>>
        /\ klassen_index = 701 => name = <<26, 26>>
        /\ klassen_index = 702 => name = <<1, 1, 1>>

\* The call for index 702 has returned AAA.
C17_Zeuge ==
  /\ klassen_index = 702
  /\ klassen_name = <<(<<1, 1, 1>>)>>

\* The text of a class name.
NameAlsText(name) ==
  [i \in DOMAIN name |->
     <<"A", "B", "C", "D", "E", "F", "G", "H", "I", "J", "K", "L", "M", "N",
       "O", "P", "Q", "R", "S", "T", "U", "V", "W", "X", "Y", "Z">>[name[i]]]

\* The text of a number in the response.
RECURSIVE Dezimal(_)
Dezimal(n) ==
  LET ziffer == <<"0", "1", "2", "3", "4", "5", "6", "7", "8", "9">>[(n % 10) + 1]
  IN  IF n < 10 THEN <<ziffer>> ELSE Append(Dezimal(n \div 10), ziffer)

C19_MeldetJeIntervall ==
  \A t \in Laeufe :
    ~ueberlappt[t] =>
      LET erreicht == IF aufrufe[t] = 0 THEN 0 ELSE aufrufe[t] - 1
          n == IF fortschritt_callback[t] THEN erreicht \div 500 ELSE 0
      IN  /\ Len(gemeldet[t]) = n
          /\ \A i \in 1..n : gemeldet[t][i].iteration = 500 * i

\* A call with a callback has reached iteration 1000 and reported twice.
C19_Zeuge ==
  \E t \in Laeufe :
    /\ fortschritt_callback[t]
    /\ ~ueberlappt[t]
    /\ aufrufe[t] = 1001
    /\ Len(gemeldet[t]) = 2
    /\ gemeldet[t][1].iteration = 500
    /\ gemeldet[t][2].iteration = 1000

\* C20: over the invocations of the callback of a call that no other call
\* overlaps, the best score reported never decreases, and in each invocation
\* it is at least the current score reported.
C20_BesterSinktNicht ==
  \A t \in Laeufe :
    ~ueberlappt[t] =>
      \A i \in DOMAIN gemeldet[t] :
        /\ gemeldet[t][i].bester_score >= gemeldet[t][i].score
        /\ i > 1 => gemeldet[t][i].bester_score >= gemeldet[t][i - 1].bester_score

\* Two reports of a call: the best score has risen between them and the
\* current score of the second is below it.
C20_Zeuge ==
  \E t \in Laeufe :
    /\ ~ueberlappt[t]
    /\ Len(gemeldet[t]) = 2
    /\ gemeldet[t][2].bester_score > gemeldet[t][1].bester_score
    /\ gemeldet[t][2].bester_score > gemeldet[t][2].score

\* The Sprengel code of a student: None when the roster has no such column
\* or the cell is missing or blank.
Code(s) ==
  IF df.sprengel = None THEN None
  ELSE IF df.sprengel[1][s] = None THEN None
  ELSE IF Strip(df.sprengel[1][s][1]) = "" THEN None
  ELSE <<Strip(df.sprengel[1][s][1])>>

\* The students who share their code with another student of their class.
MitLaufpartner ==
  {s \in df.index :
     /\ Code(s) # None
     /\ \E ki \in DOMAIN einteilung : \E s2 \in SeqToSet(einteilung[ki]) \ {s} :
          s \in SeqToSet(einteilung[ki]) /\ Code(s2) = Code(s)}

\* C21: the score a call on its own works with is the library's score plus
\* the bonus weight for every student who shares a non-blank Sprengel code
\* with another student of their class; without a Sprengel column or without
\* any Sprengel value it is the library's score.
C21_ScoreMitBonus ==
  \A t \in Laeufe :
    (aufrufe[t] > 0 /\ ~ueberlappt[t]) =>
      /\ letzter_score[t] =
           original_score + bibliothek.punkte_sprengel_gleich * Cardinality(MitLaufpartner)
      /\ (df.sprengel = None \/ \A s \in df.index : df.sprengel[1][s] = None)
           => letzter_score[t] = original_score

\* A scored partition with two students who share a code written
\* differently, one student alone with a code, and a bonus for the two.
C21_Zeuge ==
  /\ aufrufe[1] = 1
  /\ df.sprengel # None
  /\ Cardinality(MitLaufpartner) = 2
  /\ \E s \in df.index \ MitLaufpartner : Code(s) # None
  /\ \E s \in MitLaufpartner : \E s2 \in MitLaufpartner :
       Code(s) = Code(s2) /\ df.sprengel[1][s] # df.sprengel[1][s2]
  /\ letzter_score[1] = original_score + 2 * bibliothek.punkte_sprengel_gleich

\* The wishes of the class at position ki that the report has to count: the
\* pairs <<student of the class, wished student>> with the wished student in
\* the roster and not the student.
WunschPaare(ki) ==
  {sw \in SeqToSet(einteilung[ki]) \X df.index :
     sw[2] # sw[1] /\ sw[2] \in SeqToSet(df.wunsch[sw[1]])}

\* C22: per class the report counts each distinct pair of a student of the
\* class and a wished roster member other than the student once, counts it
\* as fulfilled exactly when the wished student is in the same class, has
\* fulfilled plus unfulfilled equal to the total, lists exactly one detail
\* entry per unfulfilled wish naming the different class the wished student
\* is in, and reports 100 percent for a class without wishes.
C22_WuenscheGezaehlt ==
  ppc = "geprueft" =>
    \A ki \in DOMAIN einteilung :
      LET k == pruefung.klassen[ki]
          klasse == SeqToSet(einteilung[ki])
          offen == {sw \in WunschPaare(ki) : sw[2] \notin klasse}
      IN  /\ k.wuensche_gesamt = Cardinality(WunschPaare(ki))
          /\ k.wuensche_erfuellt = Cardinality(WunschPaare(ki) \ offen)
          /\ k.wuensche_nicht_erfuellt = Cardinality(offen)
          /\ k.wuensche_gesamt = k.wuensche_erfuellt + k.wuensche_nicht_erfuellt
          /\ Cardinality(k.nicht_erfuellte_wuensche) = Cardinality(offen)
          /\ \A sw \in offen :
               \E x \in k.nicht_erfuellte_wuensche : \E kj \in DOMAIN einteilung :
                 /\ x.schueler_id = sw[1] /\ x.wunsch_id = sw[2]
                 /\ x.klasse = pruefung.klassen[ki].klasse_name
                 /\ kj # ki /\ sw[2] \in SeqToSet(einteilung[kj])
                 /\ x.wunsch_klasse = pruefung.klassen[kj].klasse_name
          /\ k.wuensche_gesamt = 0 => k.wunsch_quote_pct = 1000

\* The year group of eight checked in three classes: the class of student 3
\* has the repeated wish for student 4 fulfilled once and the wish for
\* student 5 listed as unfulfilled, and another class has no wish at all.
C22_Zeuge ==
  /\ ppc = "geprueft"
  /\ df.index = 1..8
  /\ \E ki \in DOMAIN einteilung : \E kj \in DOMAIN einteilung :
       /\ {3, 4} \subseteq SeqToSet(einteilung[ki])
       /\ 5 \in SeqToSet(einteilung[kj]) /\ kj # ki
       /\ [schueler_id |-> 3, klasse |-> _get_class_name(ki - 1), wunsch_id |-> 5,
           wunsch_klasse |-> _get_class_name(kj - 1)]
            \in pruefung.klassen[ki].nicht_erfuellte_wuensche
       /\ pruefung.klassen[ki].wuensche_erfuellt >= 1
  /\ \E ki \in DOMAIN einteilung :
       /\ pruefung.klassen[ki].anzahl_schueler > 0
       /\ pruefung.klassen[ki].wuensche_gesamt = 0
       /\ pruefung.klassen[ki].wunsch_quote_pct = 1000

\* C23: a call of _erzwinge_trennungen whose argument has no separation pair
\* in one class returns the argument, every class in its order, and an empty
\* log; so does a call whose argument is the result of a call that left no
\* pair in one class.
C23_NichtsZuErzwingen ==
  (rpc = "fertig" /\ Verletzt(einteilung, _alle_trennungspaare(df)) = {}) =>
    /\ klassen = einteilung
    /\ log = <<>>

\* A second call has returned; the roster has pairs, and the result of the
\* first call, which the second was given, holds a class that is not in
\* ascending order of the ids.
C23_Zeuge ==
  /\ rpc = "fertig"
  /\ erneut # <<>>
  /\ _alle_trennungspaare(df) # {}
  /\ Verletzt(einteilung, _alle_trennungspaare(df)) = {}
  /\ \E ki \in DOMAIN einteilung :
       einteilung[ki] # SortedSeq(SeqToSet(einteilung[ki]))
  /\ klassen = einteilung
  /\ log = <<>>

\* C24: a GET /export while a roster and a partition are stored delivers the
\* file with the assignment and the report, and a GET /export is answered
\* with 400 only while the roster or the partition is missing.
C24_ExportGelingt ==
  [][exportiere_excel =>
       IF _state.einteilung # None /\ _state.df # None
         THEN /\ antwort'.status = "datei"
              /\ antwort'.pruefung # None
       ELSE antwort'.status = "400"]_vars

\* The step from klassen and log to klassen' and log' is one move of student
\* s from class von to the different class nach, logged with partner t.
EineVerschiebung(s, t, von, nach) ==
  /\ nach # von
  /\ s \in SeqToSet(klassen[von])
  /\ DOMAIN klassen' = DOMAIN klassen
  /\ Len(klassen'[von]) = Len(klassen[von]) - 1
  /\ SeqToSet(klassen'[von]) = SeqToSet(klassen[von]) \ {s}
  /\ Len(klassen'[nach]) = Len(klassen[nach]) + 1
  /\ SeqToSet(klassen'[nach]) = SeqToSet(klassen[nach]) \cup {s}
  /\ \A ki \in DOMAIN klassen \ {von, nach} : klassen'[ki] = klassen[ki]
  /\ Len(log') = Len(log) + 1
  /\ SubSeq(log', 1, Len(log)) = log
  /\ log'[Len(log')].schueler_id = s
  /\ log'[Len(log')].von_klasse = von
  /\ log'[Len(log')].nach_klasse = nach
  /\ log'[Len(log')].grund = t

\* C25: a pass of the repair that finds a violated pair moves exactly one
\* member of a violated pair out of the class the two share into another
\* class (source one smaller, target one larger, nothing else changed) and
\* appends exactly one log entry with the moved student, source, target and
\* the other member of the pair; a pass that finds none changes neither the
\* classes nor the log.
C25_EineVerschiebungProDurchlauf ==
  [][(rpc = "schleife" /\ durchlauf < max_durchlaeufe) =>
       IF Verletzt(klassen, paare) # {}
         THEN \E p \in Verletzt(klassen, paare) : \E s \in p :
                \E nach \in DOMAIN klassen :
                  EineVerschiebung(s, CHOOSE t \in p : t # s,
                                   baue_zuordnung(klassen)[s], nach)
       ELSE klassen' = klassen /\ log' = log]_vars

\* The moves <<student, target class>> of a member of the pair p out of the
\* class von that put the student with none of their separation partners.
OhneNeueVerletzung(kl, pp, p, von) ==
  {c \in p \X (DOMAIN kl \ {von}) :
     \A q \in pp : c[1] \in q => (q \ {c[1]}) \cap SeqToSet(kl[c[2]]) = {}}

\* Move c comes no later than move c2 in the scan: the smaller student of the
\* pair first, then the classes in ascending order.
ImScanNichtNach(c, c2) ==
  \/ c[1] < c2[1]
  \/ c[1] = c2[1] /\ c[2] <= c2[2]

\* The class the members of the violated pair p share.
GemeinsameKlasse(p) == baue_zuordnung(klassen)[Min(p)]

\* C26: when a pass has, for the pair it selects, a move of a member that
\* puts the student with none of their partners, the move performed is such
\* a move, its target is no larger than the target of any other such move,
\* and among those of the same size it is the first in the scan (a before
\* b, then ascending class); afterwards the selected pair is not violated
\* and every violated pair was violated before.  (Stated for the passes in
\* which every violated pair has such a move, whichever pair is selected.)
C26_KleinstesZielOhneKonflikt ==
  [][( /\ rpc = "schleife" /\ durchlauf < max_durchlaeufe
       /\ Verletzt(klassen, paare) # {}
       /\ \A p \in Verletzt(klassen, paare) :
            OhneNeueVerletzung(klassen, paare, p, GemeinsameKlasse(p)) # {} )
     => \E p \in Verletzt(klassen, paare) :
          LET moeglich == OhneNeueVerletzung(klassen, paare, p, GemeinsameKlasse(p))
          IN  \E zug \in moeglich :
                /\ \A c \in moeglich :
                     \/ Len(klassen[zug[2]]) < Len(klassen[c[2]])
                     \/ /\ Len(klassen[zug[2]]) = Len(klassen[c[2]])
                        /\ ImScanNichtNach(zug, c)
                /\ EineVerschiebung(zug[1], CHOOSE t \in p : t # zug[1],
                                    GemeinsameKlasse(p), zug[2])
                /\ p \notin Verletzt(klassen', paare)
                /\ Verletzt(klassen', paare) \subseteq Verletzt(klassen, paare)]_vars

\* C27: a pass in which no move of a or b is without conflict moves b to the
\* smallest class other than the shared one, which violates a further pair,
\* and the log entry of this move is marked as a fallback: it is not the
\* entry written for the same move when it is without conflict.  (Stated for
\* the passes over two or more classes in which no violated pair has a move
\* without conflict, whichever pair is selected.)
C27_FallbackMarkiert ==
  [][( /\ rpc = "schleife" /\ durchlauf < max_durchlaeufe
       /\ Len(klassen) >= 2
       /\ Verletzt(klassen, paare) # {}
       /\ \A p \in Verletzt(klassen, paare) :
            OhneNeueVerletzung(klassen, paare, p, GemeinsameKlasse(p)) = {} )
     => \E p \in Verletzt(klassen, paare) :
          \E nach \in DOMAIN klassen \ {GemeinsameKlasse(p)} :
            /\ \A ki \in DOMAIN klassen \ {GemeinsameKlasse(p)} :
                 Len(klassen[nach]) <= Len(klassen[ki])
            /\ EineVerschiebung(Max(p), Min(p), GemeinsameKlasse(p), nach)
            /\ ~(Verletzt(klassen', paare) \subseteq Verletzt(klassen, paare))
            /\ log'[Len(log')] #
                 LogEintrag([schueler |-> Max(p), von |-> GemeinsameKlasse(p),
                             nach |-> nach, fallback |-> FALSE,
                             a |-> Min(p), b |-> Max(p)])]_vars

\* The first pair of a set of pairs in the canonical order: by the smaller
\* member, then by the larger one.
ErstesPaar(pp) ==
  CHOOSE p \in pp :
    \A q \in pp : \/ Min(p) < Min(q)
                  \/ Min(p) = Min(q) /\ Max(p) <= Max(q)

\* C28: the repair is deterministic: the pair a pass resolves is the first
\* violated pair in a canonical order of the pairs, so that two executions
\* on the same partition and pairs move the same students and write the same
\* log.  A pass that finds violated pairs moves a member of the first of
\* them in that order and logs the other member as the partner.
C28_ErstesPaarBestimmt ==
  [][( /\ rpc = "schleife" /\ durchlauf < max_durchlaeufe
       /\ Verletzt(klassen, paare) # {} )
     => LET p == ErstesPaar(Verletzt(klassen, paare))
        IN  \E s \in p : \E nach \in DOMAIN klassen :
              EineVerschiebung(s, CHOOSE t \in p : t # s,
                               GemeinsameKlasse(p), nach)]_vars

\* The stored roster, partition and report are what they were before.
SitzungBleibt ==
  /\ _state'.df = _state.df
  /\ _state'.einteilung = _state.einteilung
  /\ _state'.pruefung = _state.pruefung

\* The step is a request that is rejected with status 400.
Abgelehnt ==
  \/ \E datei \in Dateien : UploadAbgelehnt(datei) /\ upload_datei(datei)
  \/ \E vollstaendig \in BOOLEAN :
       MappingAbgelehnt(vollstaendig) /\ mapping_bestaetigen(vollstaendig)
  \/ /\ _state.df = None
     /\ \/ \E zuordnungen \in Zuordnungen : wuensche_speichern(zuordnungen)
        \/ \E konfig \in Konfigurationen : starte_optimierung(konfig)
        \/ hole_schueler
  \/ /\ antwort'.status = "400"
     /\ \/ \E neue_einteilung \in Verschiebungen(Schueler) \cup Verschiebungen(Df4.index) :
             verschiebe_schueler(neue_einteilung)
        \/ hole_pruefung
        \/ exportiere_excel

\* C29: a request that is rejected with an error leaves the stored roster,
\* the stored partition and the stored report as they were: a request
\* without the state it needs, a manual move with an unknown, doubled or
\* missing id, a mapping confirmation with an unmapped required column, and
\* an upload whose file cannot be read or built into a roster.
C29_AblehnungAendertNichts == [][Abgelehnt => SitzungBleibt]_vars

\* C30: after an upload that succeeded the stored partition and report are
\* cleared and the stored roster is the one built from the new file or
\* there is none until the mapping is confirmed, so that no request between
\* an upload that needs a mapping and its confirmation works on the roster
\* of an earlier file.
C30_KeinAlterJahrgang ==
  [][\A datei \in Dateien :
       (~UploadAbgelehnt(datei) /\ upload_datei(datei))
         => /\ _state'.einteilung = None
            /\ _state'.pruefung = None
            /\ _state'.df = None \/ _state'.df = <<datei.df>>]_vars

====
